---------------------------- MODULE Spec2Model ----------------------------
(* A model of the sato template evaluator (jakeprobst/sato).               *)
(*                                                                         *)
(* The evaluator is a recursive descent over a template AST.  It is        *)
(* modelled as a call-stack machine: every function of the source that     *)
(* can call back into the evaluator (render, evaluate, evaluate_multiple,  *)
(* evaluate_attrs, expand_variable, basic_html_tag and the builtins) is a  *)
(* frame kind, and every step of such a function between two calls is an   *)
(* action.  A RenderContext is an object in `heap`; a frame holds a        *)
(* reference to the context it was called with, `clone()` allocates.       *)
(*                                                                         *)
(* Text is a sequence of one-character strings, so that starts_with,       *)
(* split, trim_start_matches, to_string and parse are computed, not        *)
(* assumed.                                                                *)
EXTENDS Integers, Sequences, FiniteSets, TLC

VARIABLES
    template,   \* the Template handed to Renderer::render (its root node)
    heap,       \* the RenderContext objects alive; heap[1] is the caller's
    functions,  \* Renderer.functions: tag name -> handler
    stack,      \* the call stack of the evaluator, innermost frame last
    ret,        \* the Result travelling from a returned callee to its caller
    bodyLog,    \* history: the bindings in force at each loop-body evaluation
    scenario,   \* history: what the caller passed (template kind, context, inputs)
    parked,     \* the render calls of other threads, each as its thread holds it
    alone       \* history: what each call returned when no other call was issued

vars == <<template, heap, functions, stack, ret, bodyLog, scenario, parked, alone>>

-----------------------------------------------------------------------------
(* Bounds of the model.                                                    *)

MaxLen == 3        \* longest List / Object the caller puts in a context
MaxRange == 4      \* range bounds are drawn from 0..MaxRange
MaxStep == 3       \* range steps are drawn from 1..MaxStep
MaxDepth == 12     \* frames the call stack holds before it is exhausted

-----------------------------------------------------------------------------
(* Text.                                                                   *)

\* The characters of the model in ASCII order; a character's position stands
\* for its code (String ordering in Rust is bytewise).
AsciiOrder ==
    << " ", "!", "\"", "#", "$", "%", "'", "*", "+", "-", ".", "/",
       "0", "1", "2", "3", "4", "5", "6", "7", "8", "9",
       ":", "<", "=", ">", "@", "_",
       "a", "b", "c", "d", "e", "f", "g", "h", "i", "j", "k", "l", "m",
       "n", "o", "p", "q", "r", "s", "t", "u", "v", "w", "x", "y", "z" >>

CharCode(c) == CHOOSE i \in DOMAIN AsciiOrder : AsciiOrder[i] = c

\* str < str of Rust: lexicographic on bytes.
RECURSIVE StrLess(_, _)
StrLess(a, b) ==
    IF b = <<>> THEN FALSE
    ELSE IF a = <<>> THEN TRUE
    ELSE IF a[1] # b[1] THEN CharCode(a[1]) < CharCode(b[1])
    ELSE StrLess(Tail(a), Tail(b))

StartsWith(s, c) == Len(s) > 0 /\ s[1] = c

Contains(s, c) == \E i \in DOMAIN s : s[i] = c

\* str::trim_start_matches(c): every leading c is removed.
RECURSIVE TrimStartMatches(_, _)
TrimStartMatches(s, c) ==
    IF StartsWith(s, c) THEN TrimStartMatches(Tail(s), c) ELSE s

\* str::split(c): the pieces between the separators, empty pieces kept.
RECURSIVE SplitFrom(_, _, _)
SplitFrom(s, c, cur) ==
    IF s = <<>> THEN <<cur>>
    ELSE IF s[1] = c THEN <<cur>> \o SplitFrom(Tail(s), c, <<>>)
    ELSE SplitFrom(Tail(s), c, Append(cur, s[1]))

Split(s, c) == SplitFrom(s, c, <<>>)

Digit(d) == AsciiOrder[CharCode("0") + d]

RECURSIVE NatToString(_)
NatToString(n) ==
    IF n < 10 THEN <<Digit(n)>> ELSE Append(NatToString(n \div 10), Digit(n % 10))

\* The digits of a negative number, taken without negating it: the least
\* i32 has no positive counterpart.
RECURSIVE NegToString(_)
NegToString(n) ==
    LET q == (n + 9) \div 10
        d == q * 10 - n
    IN  IF q = 0 THEN <<Digit(d)>> ELSE Append(NegToString(q), Digit(d))

\* i64::to_string / usize::to_string / i32::to_string
IntToString(i) == IF i < 0 THEN <<"-">> \o NegToString(i) ELSE NatToString(i)

BoolToString(b) == IF b THEN <<"t", "r", "u", "e">> ELSE <<"f", "a", "l", "s", "e">>

IsDigit(c) == CharCode(c) >= CharCode("0") /\ CharCode(c) <= CharCode("9")

None == [some |-> FALSE]
Some(x) == [some |-> TRUE, v |-> x]

\* The range of i32.
I32Max == 2147483647
I32Min == -I32Max - 1

\* The digits are accumulated with checked arithmetic, upwards for a
\* positive number and downwards for a negative one; a number outside i32
\* does not parse.
RECURSIVE DigitsValue(_, _, _)
DigitsValue(s, acc, negative) ==
    IF s = <<>> THEN Some(acc)
    ELSE LET d == CharCode(s[1]) - CharCode("0") IN
         IF negative
         THEN IF acc >= (I32Min + d + 9) \div 10
              THEN DigitsValue(Tail(s), acc * 10 - d, negative) ELSE None
         ELSE IF acc <= (I32Max - d) \div 10
              THEN DigitsValue(Tail(s), acc * 10 + d, negative) ELSE None

\* str::parse::<i32>(): an optional sign, then at least one digit, nothing else.
ParseInt(s) ==
    LET body == IF StartsWith(s, "-") \/ StartsWith(s, "+") THEN Tail(s) ELSE s IN
    IF body = <<>> \/ \E i \in DOMAIN body : ~IsDigit(body[i]) THEN None
    ELSE DigitsValue(body, 0, StartsWith(s, "-"))

RECURSIVE Concat(_)
Concat(ss) == IF ss = <<>> THEN <<>> ELSE Head(ss) \o Concat(Tail(ss))

-----------------------------------------------------------------------------
(* Values: ContextValue (context.rs) and RenderValue (renderer.rs) are     *)
(* tagged unions; a value is [k |-> variant, payload |-> ...].               *)

VString(s) == [k |-> "String", payload |-> s]
VInteger(i) == [k |-> "Integer", payload |-> i]
VBoolean(b) == [k |-> "Boolean", payload |-> b]
VVec(xs) == [k |-> "Vec", payload |-> xs]
VObject(m) == [k |-> "Object", payload |-> m]
VTemplate(t) == [k |-> "Template", payload |-> t]
VEmpty == [k |-> "Empty", payload |-> 0]

\* A map that visited its keys from the greatest to the least.
RECURSIVE SortedKeysDescending(_)
SortedKeysDescending(keys) ==
    IF keys = {} THEN <<>>
    ELSE LET greatest == CHOOSE x \in keys : \A y \in keys \ {x} : StrLess(y, x)
         IN  <<greatest>> \o SortedKeysDescending(keys \ {greatest})

\* The keys of a BTreeMap in the order its iterator visits them.
RECURSIVE SortedKeys(_)
SortedKeys(keys) ==
    IF keys = {} THEN <<>>
    ELSE LET least == CHOOSE x \in keys : \A y \in keys \ {x} : StrLess(x, y)
         IN  <<least>> \o SortedKeys(keys \ {least})

\* Every order in which a HashMap may visit its keys.
RECURSIVE Orders(_)
Orders(keys) ==
    IF keys = {} THEN {<<>>}
    ELSE UNION { { <<x>> \o rest : rest \in Orders(keys \ {x}) } : x \in keys }

\* impl From<&ContextValue> for RenderValue
RECURSIVE ToRenderValue(_)
ToRenderValue(cv) ==
    CASE cv.k = "Integer" -> VInteger(cv.payload)
      [] cv.k = "Boolean" -> VBoolean(cv.payload)
      [] cv.k = "String" -> VString(cv.payload)
      [] cv.k = "Vec" -> VVec([i \in DOMAIN cv.payload |-> ToRenderValue(cv.payload[i])])
      [] cv.k = "Object" -> VObject([n \in DOMAIN cv.payload |-> ToRenderValue(cv.payload[n])])
      [] cv.k = "Template" -> VTemplate(cv.payload)

\* RenderValue::finalize.  A HashMap visits its entries in an unspecified
\* order, so the text of a value holding an Object is one of a set.
RECURSIVE Finalizations(_)
RECURSIVE FinalizeAll(_)
FinalizeAll(vs) ==
    IF vs = <<>> THEN {<<>>}
    ELSE { a \o b : a \in Finalizations(Head(vs)), b \in FinalizeAll(Tail(vs)) }

Finalizations(rv) ==
    CASE rv.k = "String" -> {rv.payload}
      [] rv.k = "Integer" -> {IntToString(rv.payload)}
      [] rv.k = "Boolean" -> {BoolToString(rv.payload)}
      [] rv.k = "Vec" -> FinalizeAll(rv.payload)
      [] rv.k = "Object" ->
            UNION { FinalizeAll([i \in DOMAIN o |-> rv.payload[o[i]]]) : o \in Orders(DOMAIN rv.payload) }
      [] rv.k = "Template" -> {<<>>}
      [] rv.k = "Empty" -> {<<>>}

-----------------------------------------------------------------------------
(* RenderContext (context.rs): a BTreeMap from name to ContextValue.       *)

EmptyContext == [n \in {} |-> VEmpty]

\* RenderContext::get
ContextGet(c, key) ==
    LET name == TrimStartMatches(key, "$") IN
    IF name \in DOMAIN c THEN Some(c[name]) ELSE None

\* RenderContext::insert
ContextInsert(c, key, value) ==
    LET name == TrimStartMatches(key, "$") IN
    [n \in DOMAIN c \cup {name} |-> IF n = name THEN value ELSE c[n]]

\* RenderContextBuilder::insert: the key is stored as it is given.
BuilderInsert(c, key, value) ==
    [n \in DOMAIN c \cup {key} |-> IF n = key THEN value ELSE c[n]]

\* RenderContextBuilder::build
BuilderBuild(c) == c

\* A scope that shared the caller's object instead of copying it.
ContextAlias(h, r) == [heap |-> h, ref |-> r]

\* A clone that takes over the context allocated last, once there is one,
\* instead of allocating its own.
ContextCloneReusing(h, r) ==
    IF Len(h) > 2
    THEN [heap |-> [h EXCEPT ![Len(h)] = h[r]], ref |-> Len(h)]
    ELSE [heap |-> Append(h, h[r]), ref |-> Len(h) + 1]

\* RenderContext::clone as used by the builtins that open a scope: a new
\* object holding the same bindings.
ContextClone(h, r) == [heap |-> Append(h, h[r]), ref |-> Len(h) + 1]

-----------------------------------------------------------------------------
(* The template AST (template.rs).                                         *)

Identifier(s) == [node |-> "Identifier", s |-> s]
IntegerLit(i) == [node |-> "Integer", i |-> i]
TagA(tag, attrs, children) ==
    [node |-> "Tag", tag |-> tag, attrs |-> attrs, children |-> children]
Tag(tag, children) == TagA(tag, <<>>, children)

\* TemplateExprNode::as_identifier
AsIdentifier(n) == IF n.node = "Identifier" THEN Some(n.s) ELSE None
\* TemplateExprNode::as_integer
AsInteger(n) == IF n.node = "Integer" THEN Some(n.i) ELSE None

\* slice.get(i) with a 0-based index
SliceGet(xs, i) == IF i >= 0 /\ i < Len(xs) THEN Some(xs[i + 1]) ELSE None
\* slice.get(i..) with a 0-based start; None when the start is past the end
SliceFrom(xs, i) == IF i <= Len(xs) THEN SubSeq(xs, i + 1, Len(xs)) ELSE <<>>

\* Attributes::get: the value of the first attribute of that name
AttributesGet(attrs, name) ==
    IF \E i \in DOMAIN attrs : attrs[i][1] = name
    THEN Some(attrs[CHOOSE i \in DOMAIN attrs :
                      /\ attrs[i][1] = name
                      /\ \A j \in 1..(i - 1) : attrs[j][1] # name][2])
    ELSE None

-----------------------------------------------------------------------------
(* Text constants of the source.                                           *)

kw_in == <<"i", "n">>
kw_range == <<"r", "a", "n", "g", "e">>
kw_enumerate == <<"e", "n", "u", "m", "e", "r", "a", "t", "e">>
kw_switch_var == <<"_", "_", "s", "w", "i", "t", "c", "h">>
kw_true == <<"'", "t", "r", "u", "e">>
kw_false == <<"'", "f", "a", "l", "s", "e">>
kw_null == <<"'", "n", "u", "l", "l">>
kw_doctype ==
    <<"<", "!", "d", "o", "c", "t", "y", "p", "e", " ", "h", "t", "m", "l", "5", ">">>
kw_html == <<"h", "t", "m", "l">>
kw_var == <<"v", "a", "r">>
kw_index == <<"i", "n", "d", "e", "x">>
kw_iterate == <<"i", "t", "e", "r", "a", "t", "e">>
kw_key == <<"k", "e", "y">>
kw_value == <<"v", "a", "l", "u", "e">>
kw_min == <<"m", "i", "n">>
kw_max == <<"m", "a", "x">>
kw_step == <<"s", "t", "e", "p">>

-----------------------------------------------------------------------------
(* Results and errors.                                                     *)

\* A Result is a record whose fields tell what it carries: nothing, a
\* RenderValue or a RenderError under v, the String of a render call, the
\* attributes evaluate_attrs made, or the message of a panic.
NoRet == [st |-> "none"]
Ok(v) == [st |-> "ok", v |-> v]
\* Ok(String): what Renderer::render returns.
OkString(txt) == [st |-> "ok", v |-> txt, text |-> TRUE]
\* Ok(Attributes): what Renderer::evaluate_attrs returns.
OkAttrs(attrs) == [st |-> "ok", attrs |-> attrs]
\* A RenderError: its variant, its message and the nodes it carries.
Err(variant, msg, nodes) ==
    [st |-> "err", v |-> [variant |-> variant, msg |-> msg, nodes |-> nodes]]
\* A Rust panic: the render call is aborted, nothing is returned.
Panic(msg) == [st |-> "panic", msg |-> msg]

-----------------------------------------------------------------------------
(* The pure parts of expand_variable and of the `for` header.              *)

\* expand_variable, dotted branch: the try_fold over the path segments.
\* The fold of a revision in which a missing segment sets no output, so
\* that the reference falls through to its own text.
RECURSIVE DottedFoldLiteral(_, _, _)
DottedFoldLiteral(segs, c, output) ==
    IF segs = <<>> THEN output
    ELSE IF output.some THEN DottedFoldLiteral(Tail(segs), c, output)
    ELSE LET found == ContextGet(c, Head(segs)) IN
         IF found.some /\ found.v.k = "Object"
         THEN DottedFoldLiteral(Tail(segs), found.v.payload, output)
         ELSE IF found.some
         THEN DottedFoldLiteral(Tail(segs), c, Some(ToRenderValue(found.v)))
         ELSE DottedFoldLiteral(Tail(segs), c, output)

RECURSIVE DottedFold(_, _, _)
DottedFold(segs, c, output) ==
    IF segs = <<>> THEN output
    ELSE IF output.some THEN DottedFold(Tail(segs), c, output)
    ELSE LET found == ContextGet(c, Head(segs)) IN
         IF found.some /\ found.v.k = "Object"
         THEN DottedFold(Tail(segs), found.v.payload, output)
         ELSE IF found.some
         THEN DottedFold(Tail(segs), c, Some(ToRenderValue(found.v)))
         ELSE DottedFold(Tail(segs), c, Some(VBoolean(FALSE)))

\* A fallback that gave the path without its sigil.
ExpandDottedBare(expr, c) ==
    LET output == DottedFold(Split(Tail(expr), "."), c, None) IN
    IF output.some THEN output.v ELSE VString(Tail(expr))

\* expand_variable, dotted branch: the fold's output, or the reference text.
ExpandDotted(expr, c) ==
    LET output == DottedFold(Split(Tail(expr), "."), c, None) IN
    IF output.some THEN output.v ELSE VString(expr)

\* A range that included its upper bound.
RECURSIVE StepByInclusive(_, _, _)
StepByInclusive(cur, max, step) ==
    IF cur > max THEN <<>> ELSE <<cur>> \o StepByInclusive(cur + step, max, step)

\* (min..max).step_by(step): min, min+step, ... while below max.
RECURSIVE StepBy(_, _, _)
StepBy(cur, max, step) ==
    IF cur >= max THEN <<>> ELSE <<cur>> \o StepBy(cur + step, max, step)

\* `step as usize` of a negative step is at least 2^63: the iterator yields
\* its first element and no other, as with any step longer than the range.
AsUsizeStep(step, min, max) ==
    IF step < 0 THEN (IF max > min THEN max - min ELSE 1) ELSE step

\* parse_range: None when min or max is no integer literal; step_by(0) panics.
ParseRange(tag) ==
    LET min == IF Len(tag.children) >= 1 THEN AsInteger(tag.children[1]) ELSE None
        max == IF Len(tag.children) >= 2 THEN AsInteger(tag.children[2]) ELSE None
        stp == IF Len(tag.children) >= 3 THEN AsInteger(tag.children[3]) ELSE None
        step == IF stp.some THEN stp.v ELSE 1
    IN  IF ~min.some \/ ~max.some THEN [st |-> "none"]
        ELSE IF step = 0 THEN [st |-> "panic"]
        ELSE [st |-> "some",
              v |-> VVec(LET r == StepBy(min.v, max.v, AsUsizeStep(step, min.v, max.v))
                         IN  [i \in DOMAIN r |-> VInteger(r[i])])]

\* do_for: the position of the first child that is the identifier `in`.
InPosition(expr) ==
    IF \E i \in DOMAIN expr : expr[i] = Identifier(kw_in)
    THEN Some((CHOOSE i \in DOMAIN expr :
                 /\ expr[i] = Identifier(kw_in)
                 /\ \A j \in 1..(i - 1) : expr[j] # Identifier(kw_in)) - 1)
    ELSE None

-----------------------------------------------------------------------------
(* Frames.                                                                 *)

NoNode == [node |-> "None"]

\* A fresh activation of function fn called with context reference c.
Frame(fn, c) ==
    [fn |-> fn, pc |-> "start", ctx |-> c, node |-> NoNode, name |-> <<>>,
     tag |-> <<>>, attrs |-> <<>>, expr |-> <<>>, i |-> 0, acc |-> <<>>,
     loc |-> [none |-> TRUE]]

EvaluateFrame(n, c) == [Frame("evaluate", c) EXCEPT !.node = n]
EvaluateMultipleFrame(ns, c) == [Frame("evaluate_multiple", c) EXCEPT !.expr = ns]
ExpandVariableFrame(s, c) == [Frame("expand_variable", c) EXCEPT !.name = s]
RenderFrame(n, c) == [Frame("render", c) EXCEPT !.node = n]

Top == stack[Len(stack)]
\* The function at the top of the stack is at pc.  No function runs once the
\* stack holds more than MaxDepth frames.
Running(fn, pc) == stack # <<>> /\ Len(stack) <= MaxDepth /\ Top.fn = fn /\ Top.pc = pc
Returned == ret.st = "ok"

Pop == SubSeq(stack, 1, Len(stack) - 1)
\* The top frame becomes f.
Replace(f) == Append(Pop, f)
\* The top frame becomes f and calls g.
Call(f, g) == Append(Append(Pop, f), g)

-----------------------------------------------------------------------------
(* The handler table (renderer.rs).                                        *)

Handler(fn, op) == [fn |-> fn, op |-> op]

\* standard_issue_functions
StandardIssueFunctions ==
    (kw_html :> Handler("do_html", ""))
    @@ (<<"i", "s", "-", "s", "e", "t">> :> Handler("do_is_set", ""))
    @@ (<<"i", "f">> :> Handler("do_if", ""))
    @@ (<<"s", "w", "i", "t", "c", "h">> :> Handler("do_switch", ""))
    @@ (<<"c", "a", "s", "e">> :> Handler("do_case", ""))
    @@ (<<"f", "o", "r">> :> Handler("do_for", ""))
    @@ (<<"g", "e", "t">> :> Handler("do_get", ""))
    @@ (<<"e", "q">> :> Handler("do_cmp_op", "eq"))
    @@ (<<"l", "t">> :> Handler("do_cmp_op", "lt"))
    @@ (<<"g", "t">> :> Handler("do_cmp_op", "gt"))
    @@ (<<"l", "t", "e">> :> Handler("do_cmp_op", "lte"))
    @@ (<<"g", "t", "e">> :> Handler("do_cmp_op", "gte"))
    @@ (<<"n", "e">> :> Handler("do_cmp_op", "ne"))
    @@ (<<"+">> :> Handler("do_math_op", "+"))
    @@ (<<"-">> :> Handler("do_math_op", "-"))
    @@ (<<"*">> :> Handler("do_math_op", "*"))
    @@ (<<"/">> :> Handler("do_math_op", "/"))
    @@ (<<"%">> :> Handler("do_math_op", "%"))

-----------------------------------------------------------------------------
(* The evaluator core (renderer.rs).                                       *)

Fixed == UNCHANGED <<template, functions, scenario, parked, alone>>

\* The top frame returns r to its caller.
Return(r) == stack' = Pop /\ ret' = r

\* Renderer::render: evaluate the template's root ...
Render ==
    /\ Running("render", "start")
    /\ stack' = Call([Top EXCEPT !.pc = "ret"], EvaluateFrame(Top.node, Top.ctx))
    /\ UNCHANGED <<ret, heap, bodyLog>> /\ Fixed

\* ... and finalize the value.
RenderFinalize ==
    /\ Running("render", "ret") /\ Returned
    /\ \E txt \in Finalizations(ret.v) : Return(OkString(txt))
    /\ UNCHANGED <<heap, bodyLog>> /\ Fixed

\* The frames whose pending call is wrapped in `.ok()`: the callee's error is
\* turned into None there instead of being returned with `?`.
Catches(f) ==
    \/ f.fn = "do_for" /\ f.pc \in {"val_ret", "key_ret", "value_ret", "attr_ret"}
    \/ f.fn = "do_math_op" /\ f.pc \in {"exp1_ret", "exp2_ret"}
    \/ f.fn = "do_cmp_op" /\ f.pc \in {"exp1_ret", "exp2_ret"} /\ f.loc.op = "eq"

\* The `?` operator: a callee's error is returned by the caller as it is.
PropagateError ==
    /\ stack # <<>> /\ ret.st = "err" /\ ~Catches(Top)
    /\ stack' = Pop
    /\ UNCHANGED <<ret, heap, bodyLog>> /\ Fixed

\* Renderer::evaluate, Identifier
EvaluateIdentifier ==
    /\ Running("evaluate", "start") /\ Top.node.node = "Identifier"
    /\ stack' = Replace(ExpandVariableFrame(Top.node.s, Top.ctx))
    /\ UNCHANGED <<ret, heap, bodyLog>> /\ Fixed

\* Renderer::evaluate, Integer
EvaluateInteger ==
    /\ Running("evaluate", "start") /\ Top.node.node = "Integer"
    /\ Return(Ok(VInteger(Top.node.i)))
    /\ UNCHANGED <<heap, bodyLog>> /\ Fixed

\* Renderer::evaluate, Tag: the attributes are evaluated first ...
EvaluateTag ==
    /\ Running("evaluate", "start") /\ Top.node.node = "Tag"
    /\ stack' = Call([Top EXCEPT !.pc = "attrs_ret"],
                     [Frame("evaluate_attrs", Top.ctx) EXCEPT !.expr = Top.node.attrs])
    /\ UNCHANGED <<ret, heap, bodyLog>> /\ Fixed

\* An evaluator that evaluated the children itself before looking for the
\* handler.
EvaluateDispatchEager ==
    /\ Running("evaluate", "attrs_ret") /\ Returned
    /\ stack' = Call([Top EXCEPT !.pc = "children_ret", !.attrs = ret.attrs],
                     EvaluateMultipleFrame(Top.node.children, Top.ctx))
    /\ ret' = NoRet
    /\ UNCHANGED <<heap, bodyLog>> /\ Fixed

\* ... then the tag goes to its handler, or to basic_html_tag when the name
\* has none; the children are handed over unevaluated.
EvaluateDispatch ==
    /\ Running("evaluate", "attrs_ret") /\ Returned
    /\ LET tag == Top.node IN
       stack' = Replace(
           [Frame(IF tag.tag \in DOMAIN functions
                  THEN functions[tag.tag].fn ELSE "basic_html_tag", Top.ctx)
            EXCEPT !.tag = tag.tag, !.attrs = ret.attrs, !.expr = tag.children,
                   !.loc = [op |-> IF tag.tag \in DOMAIN functions
                                   THEN functions[tag.tag].op ELSE ""]])
    /\ ret' = NoRet
    /\ UNCHANGED <<heap, bodyLog>> /\ Fixed

\* Renderer::evaluate_attrs: the next attribute's key is evaluated ...
EvaluateAttrs ==
    /\ Running("evaluate_attrs", "start")
    /\ IF Top.i = Len(Top.expr)
       THEN Return(OkAttrs(Top.acc))
       ELSE /\ stack' = Call([Top EXCEPT !.pc = "key_ret"],
                             EvaluateFrame(Top.expr[Top.i + 1][1], Top.ctx))
            /\ UNCHANGED ret
    /\ UNCHANGED <<heap, bodyLog>> /\ Fixed

\* ... finalized, and its value expressions are evaluated ...
EvaluateAttrsKey ==
    /\ Running("evaluate_attrs", "key_ret") /\ Returned
    /\ \E txt \in Finalizations(ret.v) :
          stack' = Call([Top EXCEPT !.pc = "value_ret", !.name = txt],
                        EvaluateMultipleFrame(Top.expr[Top.i + 1][2], Top.ctx))
    /\ ret' = NoRet
    /\ UNCHANGED <<heap, bodyLog>> /\ Fixed

\* ... and finalized: one Attribute(key, value) more.
EvaluateAttrsValue ==
    /\ Running("evaluate_attrs", "value_ret") /\ Returned
    /\ \E txt \in Finalizations(ret.v) :
          stack' = Replace([Top EXCEPT !.pc = "start", !.i = @ + 1,
                                       !.acc = Append(@, <<Top.name, txt>>)])
    /\ ret' = NoRet
    /\ UNCHANGED <<heap, bodyLog>> /\ Fixed

\* Renderer::evaluate_multiple: the next node is evaluated, or the List of
\* the results is returned ...
EvaluateMultiple ==
    /\ Running("evaluate_multiple", "start")
    /\ IF Top.i = Len(Top.expr)
       THEN Return(Ok(VVec(Top.acc)))
       ELSE /\ stack' = Call([Top EXCEPT !.pc = "ret"],
                             EvaluateFrame(Top.expr[Top.i + 1], Top.ctx))
            /\ UNCHANGED ret
    /\ UNCHANGED <<heap, bodyLog>> /\ Fixed

\* ... and its result collected.
EvaluateMultipleCollect ==
    /\ Running("evaluate_multiple", "ret") /\ Returned
    /\ stack' = Replace([Top EXCEPT !.pc = "start", !.i = @ + 1,
                                    !.acc = Append(@, ret.v)])
    /\ ret' = NoRet
    /\ UNCHANGED <<heap, bodyLog>> /\ Fixed

\* A fallback that dropped the reference instead of keeping its text.
UnwrapOrEmpty(expr) == VEmpty

\* expand_variable, bare branch: `unwrap_or(Ok(RenderValue::String(expr)))`,
\* what a name without binding expands to.
UnwrapOrLiteral(expr) == VString(expr)

\* expand_variable
ExpandVariable ==
    /\ Running("expand_variable", "start")
    /\ LET expr == Top.name
           c == heap[Top.ctx]
           found == ContextGet(c, Tail(expr))
           e == ToRenderValue(found.v)
       IN  IF ~StartsWith(expr, "$") THEN Return(Ok(VString(expr)))
           ELSE IF Contains(expr, ".") THEN Return(Ok(ExpandDotted(expr, c)))
           ELSE IF ~found.some THEN Return(Ok(UnwrapOrLiteral(expr)))
           ELSE IF e.k = "Vec"
           THEN /\ stack' = Replace([Top EXCEPT !.pc = "elems", !.expr = e.payload])
                /\ UNCHANGED ret
           ELSE IF e.k = "Template"
           THEN /\ stack' = Call([Top EXCEPT !.pc = "template_ret"],
                                 RenderFrame(e.payload, Top.ctx))
                /\ UNCHANGED ret
           ELSE Return(Ok(e))
    /\ UNCHANGED <<heap, bodyLog>> /\ Fixed

\* An expansion that kept every element of the List as it was stored.
ExpandVariableElementShallow ==
    /\ Running("expand_variable", "elems")
    /\ IF Top.i = Len(Top.expr)
       THEN Return(Ok(VVec(Top.acc)))
       ELSE /\ stack' = Replace([Top EXCEPT !.i = @ + 1, !.acc = Append(@, Top.expr[Top.i + 1])])
            /\ UNCHANGED ret
    /\ UNCHANGED <<heap, bodyLog>> /\ Fixed

\* expand_variable, a List: a String element is expanded in its turn, any
\* other element is kept.
ExpandVariableElement ==
    /\ Running("expand_variable", "elems")
    /\ IF Top.i = Len(Top.expr)
       THEN Return(Ok(VVec(Top.acc)))
       ELSE LET v == Top.expr[Top.i + 1] IN
            /\ IF v.k = "String"
               THEN stack' = Call([Top EXCEPT !.pc = "elem_ret"],
                                  ExpandVariableFrame(v.payload, Top.ctx))
               ELSE stack' = Replace([Top EXCEPT !.i = @ + 1, !.acc = Append(@, v)])
            /\ UNCHANGED ret
    /\ UNCHANGED <<heap, bodyLog>> /\ Fixed

ExpandVariableElementCollect ==
    /\ Running("expand_variable", "elem_ret") /\ Returned
    /\ stack' = Replace([Top EXCEPT !.pc = "elems", !.i = @ + 1,
                                    !.acc = Append(@, ret.v)])
    /\ ret' = NoRet
    /\ UNCHANGED <<heap, bodyLog>> /\ Fixed

\* expand_variable, a Template: the markup it rendered to, as a String.
ExpandVariableTemplate ==
    /\ Running("expand_variable", "template_ret") /\ Returned
    /\ Return(Ok(VString(ret.v)))
    /\ UNCHANGED <<heap, bodyLog>> /\ Fixed

\* basic_html_tag: the attribute text.
\* The attributes in the order of a container that does not keep the
\* order of insertion: here, last first.
AttrStrReversed(attrs) ==
    Concat([i \in DOMAIN attrs |->
              <<" ">> \o attrs[Len(attrs) + 1 - i][1] \o <<"=", "\"">>
              \o attrs[Len(attrs) + 1 - i][2] \o <<"\"">>])

\* basic_html_tag: ` key="value"` for each attribute, in their order.
AttrStr(attrs) ==
    Concat([i \in DOMAIN attrs |->
              <<" ">> \o attrs[i][1] \o <<"=", "\"">> \o attrs[i][2] \o <<"\"">>])

\* basic_html_tag: a tag without children closes itself ...
BasicHtmlTag ==
    /\ Running("basic_html_tag", "start")
    /\ IF Len(Top.expr) = 0
       THEN Return(Ok(VVec(<<VString(<<"<">> \o Top.tag \o AttrStr(Top.attrs)
                                     \o <<" ", "/", ">">>)>>)))
       ELSE /\ stack' = Call([Top EXCEPT !.pc = "ret"],
                             EvaluateMultipleFrame(Top.expr, Top.ctx))
            /\ UNCHANGED ret
    /\ UNCHANGED <<heap, bodyLog>> /\ Fixed

\* ... any other encloses its evaluated children.
BasicHtmlTagClose ==
    /\ Running("basic_html_tag", "ret") /\ Returned
    /\ Return(Ok(VVec(<< VString(<<"<">> \o Top.tag \o AttrStr(Top.attrs) \o <<">">>),
                         ret.v,
                         VString(<<"<", "/">> \o Top.tag \o <<">">>) >>)))
    /\ UNCHANGED <<heap, bodyLog>> /\ Fixed

-----------------------------------------------------------------------------
(* The builtins (builtins.rs): html, is-set, if, switch, case.             *)

\* do_html: the doctype, then the html element as basic_html_tag renders it.
DoHtml ==
    /\ Running("do_html", "start")
    /\ stack' = Call([Top EXCEPT !.pc = "ret"],
                     [Frame("basic_html_tag", Top.ctx)
                      EXCEPT !.tag = kw_html, !.attrs = Top.attrs, !.expr = Top.expr])
    /\ UNCHANGED <<ret, heap, bodyLog>> /\ Fixed

DoHtmlReturn ==
    /\ Running("do_html", "ret") /\ Returned
    /\ Return(Ok(VVec(<<VString(kw_doctype)>> \o ret.v.payload)))
    /\ UNCHANGED <<heap, bodyLog>> /\ Fixed

\* do_is_set: what the lookup of the identifier makes of the answer.
IsSetAnswer(found) ==
    IF found.some /\ found.v.k = "String"
    THEN (IF found.v.payload = kw_null THEN kw_false ELSE kw_true)
    ELSE kw_false

\* do_is_set
DoIsSet ==
    /\ Running("do_is_set", "start")
    /\ LET first == SliceGet(Top.expr, 0) IN
       IF first.some /\ first.v.node = "Identifier"
       THEN Return(Ok(VVec(<<VString(IsSetAnswer(ContextGet(heap[Top.ctx], first.v.s)))>>)))
       ELSE Return(Err("IsSet", "expected identifier", Top.expr))
    /\ UNCHANGED <<heap, bodyLog>> /\ Fixed

\* do_if: the condition is evaluated ...
DoIf ==
    /\ Running("do_if", "start")
    /\ LET conditional == SliceGet(Top.expr, 0) IN
       IF conditional.some
       THEN /\ stack' = Call([Top EXCEPT !.pc = "cond_ret"],
                             EvaluateFrame(conditional.v, Top.ctx))
            /\ UNCHANGED ret
       ELSE Return(Err("If", "condition not found", Top.expr))
    /\ UNCHANGED <<heap, bodyLog>> /\ Fixed

\* do_if: the texts of a condition that select the false block.
IfTakesElse(result) == result = kw_false \/ result = kw_null

\* ... and the block its text selects is evaluated in its place.
DoIfBranch ==
    /\ Running("do_if", "cond_ret") /\ Returned
    /\ \E result \in Finalizations(ret.v) :
          LET then_block == SliceGet(Top.expr, 1)
              else_block == SliceGet(Top.expr, 2)
          IN  IF IfTakesElse(result)
              THEN IF else_block.some
                   THEN /\ stack' = Replace(EvaluateFrame(else_block.v, Top.ctx))
                        /\ ret' = NoRet
                   ELSE Return(Ok(VVec(<<>>)))
              ELSE IF then_block.some
                   THEN /\ stack' = Replace(EvaluateFrame(then_block.v, Top.ctx))
                        /\ ret' = NoRet
                   ELSE Return(Err("If", "code block not found", Top.expr))
    /\ UNCHANGED <<heap, bodyLog>> /\ Fixed

\* A match arm without its guard: any identifier label matches.
CaseMatchesAnyLabel(condition, switch_value) ==
    /\ condition.node = "Identifier"
    /\ switch_value.k = "String"

\* do_case: the match arm's pattern and guard.
CaseMatches(condition, switch_value) ==
    /\ condition.node = "Identifier"
    /\ switch_value.k = "String"
    /\ condition.s = switch_value.payload

\* do_case
DoCase ==
    /\ Running("do_case", "start")
    /\ LET condition == SliceGet(Top.expr, 0)
           switch_value == ContextGet(heap[Top.ctx], kw_switch_var)
           body == SliceFrom(Top.expr, 1)
       IN  IF ~condition.some
           THEN Return(Err("Case", "variant not found", Top.expr))
           ELSE IF ~switch_value.some
           THEN Return(Err("Case", "builtin switch variable not found?", Top.expr))
           ELSE IF CaseMatches(condition.v, switch_value.v)
           THEN /\ stack' = Replace(EvaluateMultipleFrame(body, Top.ctx))
                /\ UNCHANGED ret
           ELSE Return(Ok(VVec(<<>>)))
    /\ UNCHANGED <<heap, bodyLog>> /\ Fixed

\* do_switch: the discriminant is evaluated ...
DoSwitch ==
    /\ Running("do_switch", "start")
    /\ LET variable == SliceGet(Top.expr, 0) IN
       IF variable.some
       THEN /\ stack' = Call([Top EXCEPT !.pc = "variable_ret"],
                             EvaluateFrame(variable.v, Top.ctx))
            /\ UNCHANGED ret
       ELSE Return(Err("Switch", "variable not found", Top.expr))
    /\ UNCHANGED <<heap, bodyLog>> /\ Fixed

\* The cases up to the first one whose label is the discriminant.
RECURSIVE UpToFirstMatch(_, _)
UpToFirstMatch(cases, variable) ==
    IF cases = <<>> THEN <<>>
    ELSE IF /\ Head(cases).node = "Tag" /\ Head(cases).children # <<>>
            /\ Head(cases).children[1] = Identifier(variable)
         THEN <<Head(cases)>>
         ELSE <<Head(cases)>> \o UpToFirstMatch(Tail(cases), variable)
CasesToFirstMatch(expr, variable) == UpToFirstMatch(SliceFrom(expr, 1), variable)

\* do_switch: `expr.get(1..)`, the cases are all the children after the
\* discriminant, whatever its value.
Cases(expr, variable) == SliceFrom(expr, 1)

\* ... bound as `__switch` in a clone of the context, and the cases are
\* evaluated with the clone ...
DoSwitchCases ==
    /\ Running("do_switch", "variable_ret") /\ Returned
    /\ \E variable \in Finalizations(ret.v) :
          LET cloned == ContextClone(heap, Top.ctx) IN
          /\ heap' = [cloned.heap EXCEPT ![cloned.ref] =
                          ContextInsert(@, kw_switch_var, VString(variable))]
          /\ stack' = Call([Top EXCEPT !.pc = "cases_ret", !.loc = [second |-> cloned.ref]],
                           EvaluateMultipleFrame(Cases(Top.expr, variable), cloned.ref))
    /\ ret' = NoRet
    /\ UNCHANGED bodyLog /\ Fixed

\* ... their results, flattened, are the switch's.
DoSwitchReturn ==
    /\ Running("do_switch", "cases_ret") /\ Returned
    /\ Return(Ok(VVec(ret.v.payload)))
    /\ UNCHANGED <<heap, bodyLog>> /\ Fixed

-----------------------------------------------------------------------------
(* RendererBuilder (renderer.rs): the handler table starts as the          *)
(* standard one, and the caller registers handlers of their own in it.     *)

\* RendererBuilder::new
RendererBuilderNew == StandardIssueFunctions

\* A registration that kept the handler a name already had.
FunctionKeepsFirst(table, name, func) ==
    [n \in DOMAIN table \cup {name} |->
        IF n \in DOMAIN table THEN table[n] ELSE func]

\* RendererBuilder::function: HashMap::insert replaces the handler the
\* name had.
Function(table, name, func) ==
    [n \in DOMAIN table \cup {name} |-> IF n = name THEN func ELSE table[n]]

\* A handler of the caller's, as the closures of the tests: whatever its
\* arguments are, it returns its own text.
UserHandler ==
    /\ Running("user", "start")
    /\ Return(Ok(VString(<<Top.loc.op>>)))
    /\ UNCHANGED <<heap, bodyLog>> /\ Fixed

-----------------------------------------------------------------------------
(* The builtin `get`.  Its handler, do_get, is registered by               *)
(* standard_issue_functions; it takes an indexable and an index, both      *)
(* evaluated, and fails with a Get error when either is missing, when the  *)
(* index is outside the List or names no member of the Object, and when    *)
(* the two are of any other kinds.                                         *)

\* An index that counted the elements from 1.
GetIndexOneBased(list, index) ==
    IF index >= 1 /\ index <= Len(list) THEN Some(list[index]) ELSE None

\* The element of a List at a 0-based index, if the index is in the List.
GetIndex(list, index) ==
    IF index >= 0 /\ index < Len(list) THEN Some(list[index + 1]) ELSE None

\* The member of an Object under a name, if it has one.
GetMember(object, name) ==
    IF name \in DOMAIN object THEN Some(object[name]) ELSE None

GetErr(msg, expr) == Err("Get", msg, expr)

\* do_get: the indexable is evaluated ...
DoGet ==
    /\ Running("do_get", "start")
    /\ LET indexable == SliceGet(Top.expr, 0) IN
       IF indexable.some
       THEN /\ stack' = Call([Top EXCEPT !.pc = "indexable_ret"],
                             EvaluateFrame(indexable.v, Top.ctx))
            /\ UNCHANGED ret
       ELSE Return(GetErr("missing indexable", Top.expr))
    /\ UNCHANGED <<heap, bodyLog>> /\ Fixed

\* ... then the index ...
DoGetIndex ==
    /\ Running("do_get", "indexable_ret") /\ Returned
    /\ LET index == SliceGet(Top.expr, 1) IN
       IF index.some
       THEN /\ stack' = Call([Top EXCEPT !.pc = "index_ret", !.loc = [indexable |-> ret.v]],
                             EvaluateFrame(index.v, Top.ctx))
            /\ ret' = NoRet
       ELSE Return(GetErr("missing index", Top.expr))
    /\ UNCHANGED <<heap, bodyLog>> /\ Fixed

\* ... and the element or member is returned.
DoGetReturn ==
    /\ Running("do_get", "index_ret") /\ Returned
    /\ LET indexable == Top.loc.indexable
           index == ret.v
           found == IF indexable.k = "Vec" /\ index.k = "Integer"
                    THEN GetIndex(indexable.payload, index.payload)
                    ELSE IF indexable.k = "Object" /\ index.k = "String"
                    THEN GetMember(indexable.payload, index.payload)
                    ELSE None
       IN  IF found.some THEN Return(Ok(found.v))
           ELSE IF indexable.k = "Vec" /\ index.k = "Integer"
           THEN Return(GetErr("index out of bounds", Top.expr))
           ELSE IF indexable.k = "Object" /\ index.k = "String"
           THEN Return(GetErr("no such member", Top.expr))
           ELSE Return(GetErr("invalid index or indexable", Top.expr))
    /\ UNCHANGED <<heap, bodyLog>> /\ Fixed

-----------------------------------------------------------------------------
(* The arithmetic builtins (builtins.rs, do_add, do_sub, do_mul, do_div,   *)
(* do_mod): both operands are evaluated, joined to a text and parsed as    *)
(* i32, and the result of the i32 operation is returned as a text.         *)

\* The outcome of an i32 operation: a number, or a panic.
Computes(n) == [st |-> "ok", n |-> n, msg |-> ""]
Panics(msg) == [st |-> "panic", n |-> 0, msg |-> msg]

\* A build without overflow checks wraps around; one with them panics.
Overflows(wrapped, msg) == {Computes(wrapped), Panics(msg)}

AddFits(a, b) == IF b >= 0 THEN a <= I32Max - b ELSE a >= I32Min - b
\* a + b reduced to i32.
WrappingAdd(a, b) ==
    IF AddFits(a, b) THEN a + b
    ELSE IF b >= 0 THEN (a + I32Min) + (b + I32Min)
    ELSE (a - I32Min) + (b - I32Min)

SubFits(a, b) == IF b >= 0 THEN a >= I32Min + b ELSE a <= I32Max + b
\* a - b reduced to i32.
WrappingSub(a, b) ==
    IF SubFits(a, b) THEN a - b
    ELSE IF b < 0 THEN (a + I32Min) - (b - I32Min)
    ELSE (a - I32Min) - (b + I32Min)

MulFits(a, b) ==
    IF a = 0 \/ b = 0 THEN TRUE
    ELSE IF a > 0 /\ b > 0 THEN a <= I32Max \div b
    ELSE IF a > 0 THEN b >= (I32Min + a - 1) \div a
    ELSE IF b > 0 THEN a >= (I32Min + b - 1) \div b
    ELSE a # I32Min /\ b # I32Min /\ (-a) <= I32Max \div (-b)

\* 2 * a and 16 * a reduced to i32 (a is evaluated once).
Twice(a) == CHOOSE d \in {WrappingAdd(x, x) : x \in {a}} : TRUE
Times16(a) == Twice(Twice(Twice(Twice(a))))

\* a * d reduced to i32, for one hexadecimal digit d.
TimesDigit(a, d) ==
    WrappingAdd(WrappingAdd(IF d % 2 = 1 THEN a ELSE 0,
                            IF (d \div 2) % 2 = 1 THEN Twice(a) ELSE 0),
                WrappingAdd(IF (d \div 4) % 2 = 1 THEN Twice(Twice(a)) ELSE 0,
                            IF d \div 8 = 1 THEN Twice(Twice(Twice(a))) ELSE 0))

\* a * b reduced to i32, digit by digit of b.
RECURSIVE WrappingMul(_, _)
WrappingMul(a, b) ==
    IF b = 0 THEN 0
    ELSE IF b = I32Min THEN (IF a % 2 = 0 THEN 0 ELSE I32Min)
    ELSE IF b < 0 THEN WrappingSub(0, WrappingMul(a, -b))
    ELSE WrappingAdd(Times16(WrappingMul(a, b \div 16)), TimesDigit(a, b % 16))

\* a / b in i32, b # 0 and not I32Min / -1: truncated toward zero.
TruncatingDiv(a, b) ==
    IF b = I32Min THEN (IF a = I32Min THEN 1 ELSE 0)
    ELSE LET m == IF b > 0 THEN b ELSE -b
             c == IF a >= 0 THEN a \div m ELSE (a + m - 1) \div m
         IN  IF b > 0 THEN c ELSE -c

\* a % b in i32: what a / b leaves, with the sign of a.
TruncatingRem(a, b) ==
    IF b = I32Min THEN (IF a = I32Min THEN 0 ELSE a)
    ELSE a - TruncatingDiv(a, b) * b

\* A division that answered 0 for a zero divisor.
DivisionByZeroYieldsZero(msg) == Computes(0)

\* The check Rust compiles into every integer `/` and `%`, in every build.
DivisionByZero(msg) == Panics(msg)

\* q op w on i32, for each of the five operators.
MathOp(op, q, w) ==
    CASE op = "+" -> IF AddFits(q, w) THEN {Computes(q + w)}
                     ELSE Overflows(WrappingAdd(q, w), "attempt to add with overflow")
      [] op = "-" -> IF SubFits(q, w) THEN {Computes(q - w)}
                     ELSE Overflows(WrappingSub(q, w), "attempt to subtract with overflow")
      [] op = "*" -> IF MulFits(q, w) THEN {Computes(q * w)}
                     ELSE Overflows(WrappingMul(q, w), "attempt to multiply with overflow")
      [] op = "/" -> IF w = 0 THEN {DivisionByZero("attempt to divide by zero")}
                     ELSE IF q = I32Min /\ w = -1
                     THEN {Panics("attempt to divide with overflow")}
                     ELSE {Computes(TruncatingDiv(q, w))}
      [] op = "%" -> IF w = 0
                     THEN {DivisionByZero("attempt to calculate the remainder with a divisor of zero")}
                     ELSE IF q = I32Min /\ w = -1
                     THEN {Panics("attempt to calculate the remainder with overflow")}
                     ELSE {Computes(TruncatingRem(q, w))}

MathErr(expr) == Err("Mod", "missing expr 1", expr)

\* The first operand is evaluated ...
DoMathOp ==
    /\ Running("do_math_op", "start")
    /\ LET e == SliceGet(Top.expr, 0) IN
       IF e.some
       THEN /\ stack' = Call([Top EXCEPT !.pc = "exp1_ret"], EvaluateFrame(e.v, Top.ctx))
            /\ UNCHANGED ret
       ELSE Return(MathErr(Top.expr))
    /\ UNCHANGED <<heap, bodyLog>> /\ Fixed

\* ... joined and parsed, and the second operand is evaluated ...
DoMathOpSecond ==
    /\ Running("do_math_op", "exp1_ret") /\ ret.st \in {"ok", "err"}
    /\ \E exp1 \in IF ret.st = "ok"
                    THEN {ParseInt(txt) : txt \in Finalizations(ret.v)} ELSE {None} :
          LET e == SliceGet(Top.expr, 1) IN
          IF exp1.some /\ e.some
          THEN /\ stack' = Call([Top EXCEPT !.pc = "exp2_ret",
                                            !.loc = [op |-> Top.loc.op, exp1 |-> exp1.v]],
                                EvaluateFrame(e.v, Top.ctx))
               /\ ret' = NoRet
          ELSE Return(MathErr(Top.expr))
    /\ UNCHANGED <<heap, bodyLog>> /\ Fixed

\* ... joined and parsed, and the result is returned as its text.
DoMathOpReturn ==
    /\ Running("do_math_op", "exp2_ret") /\ ret.st \in {"ok", "err"}
    /\ \E exp2 \in IF ret.st = "ok"
                    THEN {ParseInt(txt) : txt \in Finalizations(ret.v)} ELSE {None} :
          IF exp2.some
          THEN \E result \in MathOp(Top.loc.op, Top.loc.exp1, exp2.v) :
                  IF result.st = "ok"
                  THEN Return(Ok(VVec(<<VString(IntToString(result.n))>>)))
                  ELSE stack' = <<>> /\ ret' = Panic(result.msg)
          ELSE Return(MathErr(Top.expr))
    /\ UNCHANGED <<heap, bodyLog>> /\ Fixed

-----------------------------------------------------------------------------
(* The comparison builtins.  `eq` is do_eq (builtins.rs): both operands    *)
(* are evaluated and joined to a text, and the texts are compared.  The    *)
(* handler of the other five, do_cmp_op, is registered by                  *)
(* standard_issue_functions with the operator of RenderValue to apply to   *)
(* the two evaluated operands.                                             *)

\* impl PartialEq for RenderValue
RECURSIVE PartialEq(_, _)
PartialEq(a, b) ==
    IF a.k # b.k THEN FALSE
    ELSE IF a.k \in {"Integer", "Boolean", "String"} THEN a.payload = b.payload
    ELSE IF a.k = "Vec"
    THEN /\ Len(a.payload) = Len(b.payload)
         /\ \A i \in DOMAIN a.payload : PartialEq(a.payload[i], b.payload[i])
    ELSE FALSE

\* impl PartialOrd for RenderValue: "Less", "Equal", "Greater", or "None".
RECURSIVE PartialCmp(_, _)
PartialCmp(a, b) ==
    IF a.k # b.k THEN "None"
    ELSE IF a.k = "Integer"
    THEN (IF a.payload < b.payload THEN "Less"
          ELSE IF a.payload > b.payload THEN "Greater" ELSE "Equal")
    ELSE IF a.k = "Boolean"
    THEN (IF a.payload = b.payload THEN "Equal" ELSE IF b.payload THEN "Less" ELSE "Greater")
    ELSE IF a.k = "String"
    THEN (IF a.payload = b.payload THEN "Equal"
          ELSE IF StrLess(a.payload, b.payload) THEN "Less" ELSE "Greater")
    ELSE IF a.k = "Vec"
    THEN (IF a.payload = <<>> \/ b.payload = <<>>
          THEN (IF Len(a.payload) < Len(b.payload) THEN "Less"
                ELSE IF Len(a.payload) > Len(b.payload) THEN "Greater" ELSE "Equal")
          ELSE LET first == PartialCmp(Head(a.payload), Head(b.payload)) IN
               IF first # "Equal" THEN first
               ELSE PartialCmp(VVec(Tail(a.payload)), VVec(Tail(b.payload))))
    ELSE "None"

\* The six closures of standard_issue_functions.
CmpOp(op, q, w) ==
    CASE op = "eq" -> PartialEq(q, w)
      [] op = "ne" -> ~PartialEq(q, w)
      [] op = "lt" -> PartialCmp(q, w) = "Less"
      [] op = "gt" -> PartialCmp(q, w) = "Greater"
      [] op = "lte" -> PartialCmp(q, w) \in {"Less", "Equal"}
      [] op = "gte" -> PartialCmp(q, w) \in {"Greater", "Equal"}

\* do_eq: the first operand is evaluated ...
DoEq ==
    /\ Running("do_cmp_op", "start") /\ Top.loc.op = "eq"
    /\ LET e == SliceGet(Top.expr, 0) IN
       IF e.some
       THEN /\ stack' = Call([Top EXCEPT !.pc = "exp1_ret"], EvaluateFrame(e.v, Top.ctx))
            /\ UNCHANGED ret
       ELSE Return(MathErr(Top.expr))
    /\ UNCHANGED <<heap, bodyLog>> /\ Fixed

\* ... and joined, and the second operand is evaluated ...
DoEqSecond ==
    /\ Running("do_cmp_op", "exp1_ret") /\ Top.loc.op = "eq" /\ ret.st \in {"ok", "err"}
    /\ \E exp1 \in IF ret.st = "ok"
                    THEN {Some(txt) : txt \in Finalizations(ret.v)} ELSE {None} :
          LET e == SliceGet(Top.expr, 1) IN
          IF exp1.some /\ e.some
          THEN /\ stack' = Call([Top EXCEPT !.pc = "exp2_ret",
                                            !.loc = [op |-> Top.loc.op, exp1 |-> exp1.v]],
                                EvaluateFrame(e.v, Top.ctx))
               /\ ret' = NoRet
          ELSE Return(MathErr(Top.expr))
    /\ UNCHANGED <<heap, bodyLog>> /\ Fixed

\* ... and joined, and the answer is whether the two texts are the same.
DoEqReturn ==
    /\ Running("do_cmp_op", "exp2_ret") /\ Top.loc.op = "eq" /\ ret.st \in {"ok", "err"}
    /\ IF ret.st = "ok"
       THEN \E exp2 \in Finalizations(ret.v) :
               Return(Ok(VVec(<<VString(IF Top.loc.exp1 = exp2 THEN kw_true ELSE kw_false)>>)))
       ELSE Return(MathErr(Top.expr))
    /\ UNCHANGED <<heap, bodyLog>> /\ Fixed

CmpErr(msg, expr) == Err("Cmp", msg, expr)

\* do_cmp_op: the first operand is evaluated ...
DoCmpOp ==
    /\ Running("do_cmp_op", "start") /\ Top.loc.op # "eq"
    /\ LET e == SliceGet(Top.expr, 0) IN
       IF e.some
       THEN /\ stack' = Call([Top EXCEPT !.pc = "exp1_ret"], EvaluateFrame(e.v, Top.ctx))
            /\ UNCHANGED ret
       ELSE Return(CmpErr("missing operand", Top.expr))
    /\ UNCHANGED <<heap, bodyLog>> /\ Fixed

\* ... then the second ...
DoCmpOpSecond ==
    /\ Running("do_cmp_op", "exp1_ret") /\ Top.loc.op # "eq" /\ Returned
    /\ LET e == SliceGet(Top.expr, 1) IN
       IF e.some
       THEN /\ stack' = Call([Top EXCEPT !.pc = "exp2_ret",
                                         !.loc = [op |-> Top.loc.op, exp1 |-> ret.v]],
                             EvaluateFrame(e.v, Top.ctx))
            /\ ret' = NoRet
       ELSE Return(CmpErr("missing operand", Top.expr))
    /\ UNCHANGED <<heap, bodyLog>> /\ Fixed

\* ... and the operator is applied to the two values.
DoCmpOpReturn ==
    /\ Running("do_cmp_op", "exp2_ret") /\ Top.loc.op # "eq" /\ Returned
    /\ Return(Ok(VBoolean(CmpOp(Top.loc.op, Top.loc.exp1, ret.v))))
    /\ UNCHANGED <<heap, bodyLog>> /\ Fixed

-----------------------------------------------------------------------------
(* The builtin `for` (builtins.rs, do_for).                                *)

ForErr(msg, expr) == Err("For", msg, expr)

\* A loop that walked the List from its end.
NormalBindingsReversed(val, v) == [n \in DOMAIN v |-> << <<val, v[Len(v) + 1 - n]>> >>]

\* The bindings each iteration inserts, in insertion order, as <<name, value>>.
\* IterType::Normal
NormalBindings(val, v) == [n \in DOMAIN v |-> << <<val, v[n]>> >>]
\* IterType::Enum: `iter` takes the element, `index` the position
EnumBindings(iter, index, v) ==
    [n \in DOMAIN v |-> << <<iter, v[n]>>, <<index, VInteger(n - 1)>> >>]
\* an Object: the key as a String and the value, in the map's order
ObjectBindings(key_var, value_var, o) ==
    LET keys == SortedKeys(DOMAIN o) IN
    [n \in DOMAIN keys |-> << <<key_var, VString(keys[n])>>, <<value_var, o[keys[n]]>> >>]
\* the attribute form's range: the number as text
RangeTextBindings(val, r) == [n \in DOMAIN r |-> << <<val, VString(IntToString(r[n]))>> >>]

RECURSIVE InsertAll(_, _)
InsertAll(c, bindings) ==
    IF bindings = <<>> THEN c
    ELSE InsertAll(ContextInsert(c, Head(bindings)[1], Head(bindings)[2]), Tail(bindings))

\* `let mut second_context = context.clone()` and the iterator set up: the
\* frame enters its loop over `items`.
EnterLoop(items, body) ==
    LET cloned == ContextClone(heap, Top.ctx) IN
    /\ heap' = cloned.heap
    /\ stack' = Replace([Top EXCEPT !.pc = "loop", !.i = 0, !.acc = <<>>,
                                    !.loc = [items |-> items, body |-> body,
                                             second |-> cloned.ref]])
    /\ ret' = NoRet

\* The iterable of the positional form: expr.get(in_position+1) resolved.
Iterable(expr, pos, c) ==
    LET e == SliceGet(expr, pos + 1) IN
    IF ~e.some THEN [st |-> "err", msg |-> "no iteration variable specified"]
    ELSE IF e.v.node = "Identifier"
    THEN (LET found == ContextGet(c, e.v.s) IN
          IF found.some THEN [st |-> "ok", v |-> found.v]
          ELSE [st |-> "err", msg |-> "iterable is not a variable"])
    ELSE IF e.v.node = "Tag" /\ e.v.tag = kw_range
    THEN (LET r == ParseRange(e.v) IN
          IF r.st = "some" THEN [st |-> "ok", v |-> r.v]
          ELSE IF r.st = "panic" THEN [st |-> "panic"]
          ELSE [st |-> "err", msg |-> "invalid range"])
    ELSE [st |-> "err", msg |-> "iteration variable is not a valid type"]

\* The enumerate header: its first child names `iter`, its second `index`.
EnumerateNames(tag) ==
    LET iter == IF Len(tag.children) >= 1 THEN AsIdentifier(tag.children[1]) ELSE None
        index == IF Len(tag.children) >= 2 THEN AsIdentifier(tag.children[2]) ELSE None
    IN  IF iter.some /\ index.some THEN Some([iter |-> iter.v, index |-> index.v]) ELSE None

\* `in_position - n` on usize: below zero it panics where overflow checks
\* are compiled in and wraps (so that get() finds nothing) where not.
Builds(pos, n) == IF pos < n THEN {"checked", "wrapping"} ELSE {"any"}

\* do_for: the header is read.  Positional form: the iterable is resolved,
\* then the loop variable(s); attribute form: max, min and step are read.
DoFor ==
    /\ Running("do_for", "start")
    /\ LET expr == Top.expr
           c == heap[Top.ctx]
           pos == InPosition(expr)
       IN
       IF ~pos.some
       THEN /\ stack' = Replace([Top EXCEPT !.pc = "attr", !.acc = <<>>])
            /\ UNCHANGED <<ret, heap>>
       ELSE
       LET iterable == Iterable(expr, pos.v, c)
           body == SliceFrom(expr, pos.v + 2)
       IN
       IF iterable.st = "panic"
       THEN stack' = <<>> /\ ret' = Panic("step_by: step != 0") /\ UNCHANGED heap
       ELSE IF iterable.st = "err"
       THEN Return(ForErr(iterable.msg, expr)) /\ UNCHANGED heap
       ELSE IF iterable.v.k = "Vec"
       THEN \E build \in Builds(pos.v, 1) :
            LET e == SliceGet(expr, pos.v - 1) IN
            IF build = "checked"
            THEN stack' = <<>> /\ ret' = Panic("attempt to subtract with overflow")
                 /\ UNCHANGED heap
            ELSE IF build = "any" /\ e.v.node = "Identifier"
            THEN /\ stack' = Call([Top EXCEPT !.pc = "val_ret",
                                              !.loc = [v |-> iterable.v.payload, body |-> body]],
                                  EvaluateFrame(e.v, Top.ctx))
                 /\ UNCHANGED <<ret, heap>>
            ELSE IF build = "any" /\ e.v.node = "Tag" /\ e.v.tag = kw_enumerate
                    /\ EnumerateNames(e.v).some
            THEN LET names == EnumerateNames(e.v).v IN
                 EnterLoop(EnumBindings(names.iter, names.index, iterable.v.payload), body)
            ELSE Return(ForErr("missing variable to iterate over", expr)) /\ UNCHANGED heap
       ELSE IF iterable.v.k = "Object"
       THEN \E build \in Builds(pos.v, 2) :
            IF build = "checked"
            THEN stack' = <<>> /\ ret' = Panic("attempt to subtract with overflow")
                 /\ UNCHANGED heap
            ELSE IF build = "any"
            THEN /\ stack' = Call([Top EXCEPT !.pc = "key_ret",
                                              !.loc = [o |-> iterable.v.payload, body |-> body,
                                                       pos |-> pos.v]],
                                  EvaluateFrame(expr[pos.v - 1], Top.ctx))
                 /\ UNCHANGED <<ret, heap>>
            ELSE Return(ForErr("missing key variable to iterate over", expr))
                 /\ UNCHANGED heap
       ELSE Return(ForErr("element is not iterable", expr)) /\ UNCHANGED heap
    /\ UNCHANGED bodyLog /\ Fixed

\* do_for over a List: the loop variable's name has been evaluated.
DoForVal ==
    /\ Running("do_for", "val_ret") /\ ret.st \in {"ok", "err"}
    /\ IF ret.st = "ok"
       THEN \E val \in Finalizations(ret.v) :
               EnterLoop(NormalBindings(val, Top.loc.v), Top.loc.body)
       ELSE Return(ForErr("missing variable to iterate over", Top.expr)) /\ UNCHANGED heap
    /\ UNCHANGED bodyLog /\ Fixed

\* do_for over an Object: the key variable's name has been evaluated ...
DoForKey ==
    /\ Running("do_for", "key_ret") /\ ret.st \in {"ok", "err"}
    /\ IF ret.st = "ok"
       THEN \E key_var \in Finalizations(ret.v) :
               /\ stack' = Call([Top EXCEPT !.pc = "value_ret", !.name = key_var],
                                EvaluateFrame(Top.expr[Top.loc.pos], Top.ctx))
               /\ ret' = NoRet
       ELSE Return(ForErr("missing key variable to iterate over", Top.expr))
    /\ UNCHANGED <<heap, bodyLog>> /\ Fixed

\* ... and the value variable's.
DoForValue ==
    /\ Running("do_for", "value_ret") /\ ret.st \in {"ok", "err"}
    /\ IF ret.st = "ok"
       THEN \E value_var \in Finalizations(ret.v) :
               EnterLoop(ObjectBindings(Top.name, value_var, Top.loc.o), Top.loc.body)
       ELSE Return(ForErr("missing value variable to iterate over", Top.expr))
            /\ UNCHANGED heap
    /\ UNCHANGED bodyLog /\ Fixed

\* do_for, the loop: the next item's bindings are inserted into the second
\* context and the body is evaluated with it; after the last item the body
\* results, flattened, are returned.
DoForNext ==
    /\ Running("do_for", "loop")
    /\ IF Top.i = Len(Top.loc.items)
       THEN /\ Return(Ok(VVec(Concat(Top.acc))))
            /\ UNCHANGED <<heap, bodyLog>>
       ELSE LET second == Top.loc.second
                bound == InsertAll(heap[second], Top.loc.items[Top.i + 1])
            IN  /\ heap' = [heap EXCEPT ![second] = bound]
                /\ bodyLog' = Append(bodyLog, [depth |-> Len(stack), context |-> bound])
                /\ stack' = Call([Top EXCEPT !.pc = "body_ret"],
                                 EvaluateMultipleFrame(Top.loc.body, second))
                /\ UNCHANGED ret
    /\ Fixed

DoForCollect ==
    /\ Running("do_for", "body_ret") /\ Returned
    /\ stack' = Replace([Top EXCEPT !.pc = "loop", !.i = @ + 1,
                                    !.acc = Append(@, ret.v.payload)])
    /\ ret' = NoRet
    /\ UNCHANGED <<heap, bodyLog>> /\ Fixed

-----------------------------------------------------------------------------
(* do_for, the attribute form: no `in` among the children.                 *)

\* The attributes read as numbers, in the order the source reads them.
NumberAttrs == <<kw_max, kw_min, kw_step>>

\* attrs.get(name): present, it is evaluated as a string (evaluate_string);
\* absent, it is None.
DoForAttr ==
    /\ Running("do_for", "attr") /\ Len(Top.acc) < Len(NumberAttrs)
    /\ LET a == AttributesGet(Top.attrs, NumberAttrs[Len(Top.acc) + 1]) IN
       IF a.some
       THEN stack' = Call([Top EXCEPT !.pc = "attr_ret"], ExpandVariableFrame(a.v, Top.ctx))
       ELSE stack' = Replace([Top EXCEPT !.acc = Append(@, None)])
    /\ UNCHANGED <<ret, heap, bodyLog>> /\ Fixed

\* ... and parsed: `.ok()` then `parse::<i32>().ok()`.
DoForAttrParse ==
    /\ Running("do_for", "attr_ret") /\ ret.st \in {"ok", "err"}
    /\ \E parsed \in IF ret.st = "ok"
                     THEN {ParseInt(txt) : txt \in Finalizations(ret.v)} ELSE {None} :
          stack' = Replace([Top EXCEPT !.pc = "attr", !.acc = Append(@, parsed)])
    /\ ret' = NoRet
    /\ UNCHANGED <<heap, bodyLog>> /\ Fixed

\* With min and max: a range, bound as text under `var`.  Without: the
\* `iterate` attribute names a List (`var`, optionally `index`) or an Object
\* (`key`, `value`).
DoForAttrIterate ==
    /\ Running("do_for", "attr") /\ Len(Top.acc) = Len(NumberAttrs)
    /\ LET expr == Top.expr
           attrs == Top.attrs
           max == Top.acc[1]
           min == Top.acc[2]
           step == IF Top.acc[3].some THEN Top.acc[3].v ELSE 1
           val == AttributesGet(attrs, kw_var)
           index == AttributesGet(attrs, kw_index)
           key_var == AttributesGet(attrs, kw_key)
           value_var == AttributesGet(attrs, kw_value)
           iterate == AttributesGet(attrs, kw_iterate)
           iterable == ContextGet(heap[Top.ctx], iterate.v)
       IN
       IF min.some /\ max.some
       THEN IF ~val.some
            THEN Return(ForErr("missing var attribute for range iteration", expr))
                 /\ UNCHANGED heap
            ELSE IF step = 0
            THEN stack' = <<>> /\ ret' = Panic("step_by: step != 0") /\ UNCHANGED heap
            ELSE EnterLoop(RangeTextBindings(val.v,
                               StepBy(min.v, max.v, AsUsizeStep(step, min.v, max.v))), expr)
       ELSE IF ~iterate.some
       THEN Return(ForErr("missing iterate attribute", expr)) /\ UNCHANGED heap
       ELSE IF ~iterable.some
       THEN Return(ForErr("iterate attribute variable is not set ", expr)) /\ UNCHANGED heap
       ELSE IF iterable.v.k = "Vec"
       THEN IF ~val.some
            THEN Return(ForErr("missing var attribute for array iteration", expr))
                 /\ UNCHANGED heap
            ELSE IF index.some
            THEN EnterLoop(EnumBindings(val.v, index.v, iterable.v.payload), expr)
            ELSE EnterLoop(NormalBindings(val.v, iterable.v.payload), expr)
       ELSE IF iterable.v.k = "Object"
       THEN IF ~key_var.some
            THEN Return(ForErr("missing key attribute for object iteration", expr))
                 /\ UNCHANGED heap
            ELSE IF ~value_var.some
            THEN Return(ForErr("missing value attribute for object iteration", expr))
                 /\ UNCHANGED heap
            ELSE EnterLoop(ObjectBindings(key_var.v, value_var.v, iterable.v.payload), expr)
       ELSE Return(ForErr("iterate attribute is not an array or object", expr))
            /\ UNCHANGED heap
    /\ UNCHANGED bodyLog /\ Fixed

-----------------------------------------------------------------------------
(* The render calls explored: templates and caller contexts.               *)

n_xs == <<"x", "s">>
n_item == <<"i", "t", "e", "m">>
n_obj == <<"o", "b", "j">>
n_a == <<"a">>
n_b == <<"b">>
n_c == <<"c">>
n_d == <<"d">>
n_i == <<"i">>
n_k == <<"k">>
n_v == <<"v">>
n_x == <<"x">>
n_div == <<"d", "i", "v">>
n_yes == <<"y", "e", "s">>
n_no == <<"n", "o">>

\* `$name` as written in a template
Var(name) == Identifier(<<"$">> \o name)
\* a context holding one binding
Binding(name, value) == [n \in {name} |-> value]

\* Sequences without repetition, of at most n elements of S.
RECURSIVE DistinctSeqs(_, _)
DistinctSeqs(S, n) ==
    IF n = 0 THEN {<<>>}
    ELSE {<<>>} \cup UNION { { <<x>> \o rest : rest \in DistinctSeqs(S \ {x}, n - 1) } : x \in S }

\* Sequences of at most n elements of S.
SeqsUpTo(S, n) == UNION { [1..m -> S] : m \in 0..n }

ElemPool == {VString(<<"a">>), VString(<<"q", "z">>), VInteger(7)}
KeyPool == {<<"q", "w">>, <<"a", "s">>, <<"z", "x">>, <<"a">>}
ObjValPool == {VString(<<"e", "r">>), VInteger(1)}
LabelPool == {<<"a", "s", "d", "f">>, <<"z", "x", "c", "v">>, <<"h", "j", "k", "l">>, <<"a">>}
NamePool == {<<"n">>, <<"t", "i", "t", "l", "e">>, <<"x", "_", "1">>}

Lists == SeqsUpTo(ElemPool, MaxLen)
Objects ==
    UNION { [S -> ObjValPool] : S \in {T \in SUBSET KeyPool : Cardinality(T) <= MaxLen} }

\* The values a caller may bind to one name, one or more of each kind.
KindPool ==
    { VInteger(4), VInteger(0), VBoolean(TRUE), VBoolean(FALSE),
      VString(<<>>), VString(<<"s">>), VString(kw_null), VString(kw_false),
      VString(kw_true), VString(BoolToString(FALSE)),
      VVec(<<>>), VVec(<<VString(<<"a">>)>>), VVec(<<VString(kw_false)>>),
      VObject(Binding(n_a, VInteger(1))), VTemplate(Tag(n_b, <<Identifier(n_a)>>)) }

\* (div (for item in $xs (b $item) -) $item)
ForListTemplate ==
    Tag(n_div, << Tag(<<"f", "o", "r">>,
                      << Identifier(n_item), Identifier(kw_in), Var(n_xs),
                         Tag(n_b, <<Var(n_item)>>), Identifier(<<"-">>) >>),
                  Var(n_item) >>)

\* (div (for (enumerate k i) in $xs (b $k : $i)) $k $i)
ForEnumTemplate ==
    Tag(n_div, << Tag(<<"f", "o", "r">>,
                      << Tag(kw_enumerate, <<Identifier(n_k), Identifier(n_i)>>),
                         Identifier(kw_in), Var(n_xs),
                         Tag(n_b, <<Var(n_k), Identifier(<<":">>), Var(n_i)>>) >>),
                  Var(n_k), Var(n_i) >>)

\* (for i in (range min max step?) (b $i))
ForRangeTemplate(min, max, step) ==
    Tag(<<"f", "o", "r">>,
        << Identifier(n_i), Identifier(kw_in),
           Tag(kw_range, <<min, max>> \o (IF step.some THEN <<step.v>> ELSE <<>>)),
           Tag(n_b, <<Var(n_i)>>) >>)

\* (div (for k v in $obj (b $k = $v)) $k $v)
ForObjectTemplate ==
    Tag(n_div, << Tag(<<"f", "o", "r">>,
                      << Identifier(n_k), Identifier(n_v), Identifier(kw_in), Var(n_obj),
                         Tag(n_b, <<Var(n_k), Identifier(<<"=">>), Var(n_v)>>) >>),
                  Var(n_k), Var(n_v) >>)

\* (is-set $x)
IsSetTemplate == Tag(<<"i", "s", "-", "s", "e", "t">>, <<Var(n_x)>>)

ThenBlock == Tag(n_b, <<Identifier(n_yes)>>)
ElseBlock == Tag(n_i, <<Identifier(n_no)>>)

\* (if cond (b yes) (i no)), or without its false block
IfTemplate(cond, has_else) ==
    Tag(<<"i", "f">>, <<cond, ThenBlock>> \o (IF has_else THEN <<ElseBlock>> ELSE <<>>))

\* (case label (b label) !)
CaseOf(label) ==
    Tag(<<"c", "a", "s", "e">>,
        <<Identifier(label), Tag(n_b, <<Identifier(label)>>), Identifier(<<"!">>)>>)

\* (div (switch $d (case l1 ...) (case l2 ...) ...) $__switch)
SwitchTemplate(labels) ==
    Tag(n_div, << Tag(<<"s", "w", "i", "t", "c", "h">>,
                      <<Var(n_d)>> \o [n \in DOMAIN labels |-> CaseOf(labels[n])]),
                  Var(kw_switch_var) >>)

\* (case label (b n)): the case at position n of a switch
MarkedCase(label, n) ==
    Tag(<<"c", "a", "s", "e">>, <<Identifier(label), Tag(n_b, <<IntegerLit(n)>>)>>)

\* (switch $d (case l1 (b 1)) (case l2 (b 2)) ...), labels may repeat; with
\* `open`, a last case without a label, which fails when it is visited.
CollidingTemplate(labels, open) ==
    Tag(<<"s", "w", "i", "t", "c", "h">>,
        <<Var(n_d)>> \o [n \in DOMAIN labels |-> MarkedCase(labels[n], n)]
                     \o (IF open THEN <<Tag(<<"c", "a", "s", "e">>, <<>>)>> ELSE <<>>))

\* (switch $d (case l1 (switch $e (case m1 (b 1)) (case m2 (b 2))))
\*            (case l2 (b 20)) (case l3 (b 30))):
\* the first outer case holds the inner switch, every other outer case is
\* evaluated after it.
NestedTemplate(labels, inner) ==
    LET case(label, body) == Tag(<<"c", "a", "s", "e">>, <<Identifier(label), body>>)
        mark(n) == Tag(n_b, <<IntegerLit(n)>>)
        switch(on, cases) == Tag(<<"s", "w", "i", "t", "c", "h">>, <<Var(on)>> \o cases)
    IN  switch(n_d, [n \in DOMAIN labels |->
                        IF n = 1
                        THEN case(labels[1],
                                  switch(<<"e">>, [m \in DOMAIN inner |-> case(inner[m], mark(m))]))
                        ELSE case(labels[n], mark(10 * n))])

\* (get $xs i)
GetTemplate(i) == Tag(<<"g", "e", "t">>, <<Var(n_xs), IntegerLit(i)>>)

\* The operands of the arithmetic scenarios: small numbers of both signs
\* and the ends of i32.
Operands == {-7, -2, -1, 0, 1, 2, 7, I32Max - 1, I32Max, I32Min}
MathOps == {"+", "-", "*", "/", "%"}

\* (op $a b)
MathTemplate(op, b) == Tag(<<op>>, <<Var(n_a), IntegerLit(b)>>)

\* The operands of the comparison scenarios: values of four kinds, some
\* of which render to the same text.
CmpOperands ==
    {VInteger(1), VInteger(2), VString(<<"1">>), VString(<<"t", "r", "u", "e">>),
     VBoolean(TRUE), VVec(<<VInteger(1)>>)}

CmpTags ==
    {<<"e", "q">>, <<"n", "e">>, <<"l", "t">>, <<"g", "t">>, <<"l", "t", "e">>, <<"g", "t", "e">>}

\* (op $a $b)
CmpTemplate(op) == Tag(op, <<Var(n_a), Var(n_b)>>)

\* Two operands whose evaluation fails: an index past the end of a List and
\* an `if` without a condition.
FailingOperands ==
    [get |-> Tag(<<"g", "e", "t">>, <<Var(n_xs), IntegerLit(9)>>),
     cond |-> Tag(<<"i", "f">>, <<>>)]

MathTags == {<<op>> : op \in MathOps}

\* (op failing 1) or (op 1 failing)
OperandErrorTemplate(op, failing, second) ==
    IF second
    THEN Tag(op, <<IntegerLit(1), FailingOperands[failing]>>)
    ELSE Tag(op, <<FailingOperands[failing], IntegerLit(1)>>)

\* Three expressions that evaluate to 0: a literal, a variable, a tag.
Zeros ==
    <<IntegerLit(0), Var(n_b), Tag(<<"-">>, <<IntegerLit(1), IntegerLit(1)>>)>>

\* Templates that evaluate the expression d somewhere inside them.
Surroundings(d) ==
    <<d,
      Tag(n_div, <<d>>),
      Tag(n_div, <<Identifier(n_x), d, Identifier(n_x)>>),
      Tag(kw_html, <<d>>),
      Tag(<<"i", "f">>, <<d, Identifier(n_yes), Identifier(n_no)>>),
      Tag(<<"i", "f">>, <<Identifier(kw_true), d, Identifier(n_no)>>),
      Tag(<<"f", "o", "r">>, <<Identifier(n_i), Identifier(kw_in), Var(n_xs), d>>),
      Tag(<<"f", "o", "r">>, <<Identifier(n_i), Identifier(kw_in), d, Identifier(n_x)>>),
      Tag(<<"+">>, <<IntegerLit(1), d>>),
      Tag(<<"*">>, <<d, IntegerLit(0)>>),
      Tag(<<"e", "q">>, <<d, IntegerLit(0)>>),
      Tag(<<"l", "t">>, <<IntegerLit(0), d>>),
      Tag(<<"s", "w", "i", "t", "c", "h">>, <<d, CaseOf(n_a)>>),
      Tag(<<"g", "e", "t">>, <<Var(n_xs), d>>),
      TagA(<<"p">>, << <<Identifier(n_k), <<d>>>> >>, <<Identifier(n_x)>>)>>

DivideTemplate(op, a, zero, around) ==
    Surroundings(Tag(<<op>>, <<IntegerLit(a), Zeros[zero]>>))[around]

\* The segments of the dotted references, and the references: $s1.s2 and
\* $s1.s2.s3.
Segments == {<<"o">>, n_a, n_b, <<"z">>}
Paths == {p \in SeqsUpTo(Segments, 3) : Len(p) >= 2}

RECURSIVE JoinDots(_)
JoinDots(path) ==
    IF Len(path) = 1 THEN path[1] ELSE path[1] \o <<".">> \o JoinDots(Tail(path))

\* o is an Object holding an Object a (holding b) and an Integer b; a is
\* also bound at the top, to a String.
DottedContext ==
    Binding(<<"o">>, VObject(Binding(n_a, VObject(Binding(n_b, VString(<<"d">>))))
                             @@ Binding(n_b, VInteger(5))))
    @@ Binding(n_a, VString(<<"t", "o", "p">>))

\* What the caller stores: the value "v" under `n` or `$n`, and then
\* perhaps the value "w" under `$$n`; through RenderContext::insert, or
\* through the builder.
Stores ==
    {[kind |-> "keys", by |-> by, key |-> key, second |-> second] :
        by \in {"insert", "builder"}, key \in {n_x, <<"$">> \o n_x}, second \in BOOLEAN}

StoredContext(sc) ==
    LET v == VString(<<"v">>)
        w == VString(<<"w">>)
        twice == <<"$", "$">> \o n_x
    IN  IF sc.by = "insert"
        THEN LET first == ContextInsert(EmptyContext, sc.key, v) IN
             IF sc.second THEN ContextInsert(first, twice, w) ELSE first
        ELSE LET first == BuilderInsert(EmptyContext, sc.key, v) IN
             BuilderBuild(IF sc.second THEN BuilderInsert(first, twice, w) ELSE first)

\* (p $x $$x $$$x): the lookups get("x"), get("$x") and get("$$x").
KeysTemplate ==
    Tag(<<"p">>, <<Var(n_x), Var(<<"$">> \o n_x), Var(<<"$", "$">> \o n_x)>>)

\* The caller registers handlers "1" and "2" under the name of a builtin,
\* one after the other, and perhaps handler "9" under `blah`.
n_blah == <<"b", "l", "a", "h">>
Overridden == {kw_html, <<"i", "f">>, <<"f", "o", "r">>, <<"+">>, <<"g", "e", "t">>}
Registrations ==
    {[kind |-> "override", name |-> name, regs |-> regs, other |-> other] :
        name \in Overridden, regs \in SeqsUpTo({"1", "2"}, 2) \ {<<>>}, other \in BOOLEAN}

RECURSIVE RegisterAll(_, _, _)
RegisterAll(table, name, regs) ==
    IF regs = <<>> THEN table
    ELSE RegisterAll(Function(table, name, Handler("user", Head(regs))), name, Tail(regs))

\* A tag with a handler of the caller's (under a name of its own, or under
\* the name of a builtin), attributes and children.  The attributes: a
\* name, a variable bound to Integer 5, a `get` outside its List (a Get
\* error when it is evaluated).  The children: a division by zero (a panic
\* when it is evaluated), a `case` without label (a Case error), a
\* variable, a name.
HandledAttrs ==
    { <<Identifier(n_k), <<Identifier(n_v)>>>>,
      <<Identifier(n_i), <<Var(n_a), IntegerLit(3)>>>>,
      <<Identifier(n_c), <<Tag(<<"g", "e", "t">>, <<Var(n_xs), IntegerLit(9)>>)>>>> }
HandledChildren ==
    { Tag(<<"/">>, <<IntegerLit(1), IntegerLit(0)>>), Tag(<<"c", "a", "s", "e">>, <<>>),
      Var(n_d), Identifier(n_x) }
Handled ==
    {[kind |-> "handled", name |-> name, attributes |-> as, children |-> cs] :
        name \in {n_blah, <<"i", "f">>},
        as \in SeqsUpTo(HandledAttrs, 2), cs \in SeqsUpTo(HandledChildren, 2)}

\* The template `$xs`, xs bound to a List of: a String without sigil, a
\* reference to a String, to a List (holding a reference itself), to a
\* nested Object member and to nothing; an Integer; a List holding a
\* reference.
n_ys == <<"y", "s">>
PlaceholderElems ==
    { VString(<<"t">>), VString(<<"$">> \o n_a), VString(<<"$">> \o n_ys),
      VString(<<"$", "o", ".", "b">>), VString(<<"$">> \o n_d), VInteger(12),
      VVec(<<VString(<<"$">> \o n_a)>>) }
Placeholders == {[kind |-> "placeholders", xs |-> xs] : xs \in SeqsUpTo(PlaceholderElems, MaxLen)}
PlaceholderContext(xs) ==
    Binding(n_xs, VVec(xs)) @@ Binding(n_a, VString(<<"q">>))
    @@ Binding(n_ys, VVec(<<VString(<<"$">> \o n_a), VInteger(7)>>))
    @@ Binding(<<"o">>, VObject(Binding(n_b, VInteger(3))))

\* Renderer::builder().function(..) ... .build()
FunctionsOf(sc) ==
    IF sc.kind = "handled" THEN Function(RendererBuilderNew, sc.name, Handler("user", "1"))
    ELSE IF sc.kind = "override"
    THEN LET first == Function(RendererBuilderNew, sc.name, Handler("user", Head(sc.regs)))
             blah == IF sc.other THEN Function(first, n_blah, Handler("user", "9")) ELSE first
         IN  RegisterAll(blah, sc.name, Tail(sc.regs))
    ELSE RendererBuilderNew

\* (div (name a) (eq 1 1) (blah) (name))
OverrideTemplate(name) ==
    Tag(n_div, <<Tag(name, <<Identifier(n_a)>>),
                 Tag(<<"e", "q">>, <<IntegerLit(1), IntegerLit(1)>>),
                 Tag(n_blah, <<>>),
                 Tag(name, <<>>)>>)

\* The attributes and children of the markup scenarios: names, a variable
\* bound to Integer 5, a literal, several values for one key, no value; a
\* child tag.
MarkupAttrs ==
    { <<Identifier(n_k), <<Identifier(n_v)>>>>,
      <<Var(n_a), <<Var(n_a)>>>>,
      <<Identifier(n_c), <<Identifier(n_x), IntegerLit(3)>>>>,
      <<Identifier(n_d), <<>>>> }
MarkupChildren == {Identifier(n_x), Var(n_a), IntegerLit(3), Tag(n_b, <<>>)}

Markups ==
    {[kind |-> "markup", attributes |-> as, children |-> cs] :
        as \in SeqsUpTo(MarkupAttrs, 2), cs \in SeqsUpTo(MarkupChildren, 2)}

\* A context with `name` bound to the value, or without it.
Optional(name, value) == IF value.some THEN Binding(name, value.v) ELSE EmptyContext

Options(S) == {None} \cup {Some(x) : x \in S}


\* An attribute as the AST holds it: a key expression and value expressions.
Attr(key, value) == <<Identifier(key), <<Identifier(value)>>>>

For(attrs, children) == TagA(<<"f", "o", "r">>, attrs, children)

\* Contexts in which `name` has no binding.
ContextsWithout(name) ==
    { EmptyContext,
      Binding(name \o <<"x">>, VString(<<"o">>)),
      Binding(<<"$">> \o name, VString(<<"o">>)),
      Binding(<<"o">>, VInteger(3)) @@ Binding(n_xs, VVec(<<VString(<<"$">> \o name)>>)) }

\* Further calls: attributes, html, a Template and a List of references in
\* the context, dotted paths, the attribute form of `for`, failing calls.
MiscCalls ==
    << [t |-> Tag(kw_html, <<TagA(<<"h", "e", "a", "d">>,
                                  <<<<Identifier(<<"a", "s">>), <<Var(<<"q", "w">>)>>>>,
                                    Attr(<<"z", "x">>, <<"a", "s", "d">>)>>,
                                  <<Tag(<<"t", "i", "t", "l", "e">>, <<Identifier(n_a)>>)>>)>>),
        c |-> Binding(<<"q", "w">>, VString(<<"z", "x", "c", "v">>))],
       [t |-> Tag(<<"p">>, <<Var(<<"t", "p", "l">>)>>),
        c |-> Binding(<<"t", "p", "l">>, VTemplate(Tag(n_b, <<Var(n_a)>>)))
              @@ Binding(n_a, VString(<<"x">>))],
       [t |-> Tag(n_div, <<Var(<<"v", "e", "c">>)>>),
        c |-> Binding(<<"v", "e", "c">>,
                      VVec(<<VString(<<"t">>), VString(<<"$", "a", "s">>), VInteger(12)>>))
              @@ Binding(<<"a", "s">>, VString(<<"q", "w">>))],
       [t |-> Tag(<<"p">>, <<Var(<<"o", ".", "a", ".", "b">>), Var(<<"o", ".", "z">>),
                             Var(<<"o", ".", "a">>)>>),
        c |-> Binding(<<"o">>, VObject(Binding(n_a, VObject(Binding(n_b, VString(<<"d">>))))))],
       [t |-> For(<<Attr(kw_var, n_i), Attr(kw_min, <<"0">>), Attr(kw_max, <<"3">>),
                    Attr(kw_step, <<"2">>)>>, <<Tag(n_b, <<Var(n_i)>>)>>),
        c |-> EmptyContext],
       [t |-> For(<<Attr(kw_var, n_i), Attr(kw_min, <<"$", "a">>), Attr(kw_max, <<"3">>)>>,
                  <<Tag(n_b, <<Var(n_i)>>)>>),
        c |-> Binding(n_a, VInteger(1))],
       [t |-> For(<<Attr(kw_var, n_i), Attr(kw_index, n_k), Attr(kw_iterate, n_xs)>>,
                  <<Tag(n_b, <<Var(n_k), Var(n_i)>>)>>),
        c |-> Binding(n_xs, VVec(<<VString(<<"a">>), VString(<<"b">>)>>))],
       [t |-> For(<<Attr(kw_iterate, n_obj), Attr(kw_key, n_k), Attr(kw_value, n_v)>>,
                  <<Tag(n_b, <<Var(n_k), Var(n_v)>>)>>),
        c |-> Binding(n_obj, VObject(Binding(<<"q">>, VInteger(1)) @@ Binding(n_a, VInteger(2))))],
       [t |-> For(<<Attr(kw_iterate, n_x)>>, <<>>), c |-> Binding(n_x, VInteger(1))],
       [t |-> For(<<Attr(kw_min, <<"0">>), Attr(kw_max, <<"2">>), Attr(kw_step, <<"0">>),
                    Attr(kw_var, n_i)>>, <<>>), c |-> EmptyContext],
       [t |-> Tag(<<"p">>, <<IntegerLit(5), Identifier(n_a), IntegerLit(-12)>>),
        c |-> EmptyContext],
       [t |-> Tag(n_div, <<Tag(<<"g", "e", "t">>, <<Var(n_obj), Identifier(n_a)>>),
                           Tag(<<"g", "e", "t">>,
                               <<Tag(<<"g", "e", "t">>, <<Var(n_xs), IntegerLit(1)>>),
                                 IntegerLit(0)>>)>>),
        c |-> Binding(n_obj, VObject(Binding(n_a, VString(<<"d", "f">>))))
              @@ Binding(n_xs, VVec(<<VString(<<"q">>), VVec(<<VString(<<"w">>)>>)>>))],
       [t |-> Tag(<<"g", "e", "t">>, <<Var(n_obj), Identifier(n_b)>>),
        c |-> Binding(n_obj, VObject(Binding(n_a, VInteger(1))))],
       [t |-> Tag(<<"g", "e", "t">>, <<Var(n_obj), IntegerLit(0)>>),
        c |-> Binding(n_obj, VObject(Binding(n_a, VInteger(1))))],
       [t |-> Tag(<<"g", "e", "t">>, <<>>), c |-> EmptyContext],
       \* lib.rs, test_math_ops
       [t |-> Tag(<<"+">>,
                  <<Tag(<<"/">>, <<Tag(<<"*">>, <<Var(n_b),
                                                  Tag(<<"-">>, <<Var(n_c),
                                                                 Tag(<<"+">>, <<IntegerLit(2), IntegerLit(3)>>)>>)>>),
                                   Var(n_c)>>),
                    Tag(<<"+">>, <<Var(n_b), Var(n_c)>>)>>),
        c |-> Binding(n_b, VInteger(7)) @@ Binding(n_c, VInteger(12))],
       [t |-> Tag(<<"+">>, <<>>), c |-> EmptyContext],
       [t |-> Tag(<<"-">>, <<IntegerLit(1)>>), c |-> EmptyContext],
       [t |-> Tag(<<"*">>, <<Identifier(n_x), IntegerLit(1)>>), c |-> EmptyContext],
       [t |-> Tag(<<"*">>, <<IntegerLit(1), Identifier(n_x)>>), c |-> EmptyContext],
       [t |-> Tag(<<"+">>, <<Tag(<<"i", "f">>, <<>>), IntegerLit(1)>>), c |-> EmptyContext],
       [t |-> Tag(<<"+">>, <<IntegerLit(1), Tag(<<"i", "f">>, <<>>)>>), c |-> EmptyContext],
       [t |-> Tag(<<"e", "q">>, <<>>), c |-> EmptyContext],
       [t |-> Tag(<<"e", "q">>, <<IntegerLit(1)>>), c |-> EmptyContext],
       [t |-> Tag(<<"e", "q">>, <<Tag(<<"i", "f">>, <<>>), IntegerLit(1)>>), c |-> EmptyContext],
       [t |-> Tag(<<"e", "q">>, <<IntegerLit(1), Tag(<<"i", "f">>, <<>>)>>), c |-> EmptyContext],
       [t |-> Tag(<<"e", "q">>, <<Tag(<<"+">>, <<IntegerLit(1), IntegerLit(1)>>), IntegerLit(2)>>),
        c |-> EmptyContext],
       [t |-> Tag(<<"l", "t">>, <<>>), c |-> EmptyContext],
       [t |-> Tag(<<"l", "t">>, <<IntegerLit(1)>>), c |-> EmptyContext],
       [t |-> Tag(<<"l", "t">>, <<Tag(<<"i", "f">>, <<>>), IntegerLit(1)>>), c |-> EmptyContext],
       [t |-> Tag(<<"l", "t">>, <<IntegerLit(1), Identifier(n_x)>>), c |-> EmptyContext],
       [t |-> Tag(<<"g", "e", "t">>, <<Var(n_xs)>>), c |-> EmptyContext],
       [t |-> Tag(n_div, <<Tag(<<"i", "f">>, <<>>)>>), c |-> EmptyContext],
       [t |-> Tag(n_div, <<Tag(<<"i", "f">>, <<Identifier(n_a)>>)>>), c |-> EmptyContext],
       [t |-> Tag(<<"s", "w", "i", "t", "c", "h">>, <<>>), c |-> EmptyContext],
       [t |-> CaseOf(n_a), c |-> EmptyContext],
       [t |-> Tag(<<"c", "a", "s", "e">>, <<>>), c |-> EmptyContext],
       [t |-> Tag(<<"i", "s", "-", "s", "e", "t">>, <<IntegerLit(3)>>), c |-> EmptyContext],
       [t |-> For(<<>>, <<Identifier(n_i), Identifier(kw_in)>>), c |-> EmptyContext],
       [t |-> For(<<>>, <<Identifier(n_i), Identifier(kw_in), Var(n_x)>>), c |-> EmptyContext],
       [t |-> For(<<>>, <<Identifier(n_i), Identifier(kw_in), Var(n_x)>>),
        c |-> Binding(n_x, VString(<<"s">>))],
       [t |-> For(<<>>, <<Identifier(n_i), Identifier(kw_in), IntegerLit(3)>>), c |-> EmptyContext],
       [t |-> For(<<>>, <<Identifier(kw_in), Var(n_xs), Var(n_x)>>),
        c |-> Binding(n_xs, VVec(<<VInteger(1)>>))],
       [t |-> For(<<>>, <<Identifier(n_k), Identifier(kw_in), Var(n_obj), Var(n_k)>>),
        c |-> Binding(n_obj, VObject(Binding(n_a, VInteger(1))))],
       [t |-> For(<<>>, <<Tag(n_b, <<>>), Identifier(kw_in), Var(n_xs)>>),
        c |-> Binding(n_xs, VVec(<<VInteger(1)>>))],
       [t |-> For(<<>>, <<Var(<<"t", "p", "l">>), Identifier(kw_in), Var(n_xs)>>),
        c |-> Binding(n_xs, VVec(<<VInteger(1)>>))
              @@ Binding(<<"t", "p", "l">>, VTemplate(Tag(<<"i", "f">>, <<>>)))],
       [t |-> For(<<>>, <<Identifier(n_i), Identifier(kw_in),
                          Tag(kw_range, <<IntegerLit(0), IntegerLit(2), Var(n_x)>>),
                          Var(n_i)>>),
        c |-> EmptyContext],
       \* The step attribute is the text of a reference to a template that
       \* fails.
       [t |-> For(<<Attr(kw_var, n_i), Attr(kw_min, <<"0">>), Attr(kw_max, <<"2">>),
                    Attr(kw_step, <<"$", "s">>)>>, <<Tag(n_b, <<Var(n_i)>>)>>),
        c |-> Binding(<<"s">>, VString(<<"$", "t", "p", "l">>))
              @@ Binding(<<"t", "p", "l">>, VTemplate(Tag(<<"i", "f">>, <<>>)))] >>

\* The template and the caller's context of a render call.
\* `for` tags with a malformed header, and the context of each: `in` as
\* the first child (iterable a List, an Object), an Object iterable with one
\* name before `in`, nothing after `in`, an unset iterable, an iterable of
\* another kind (String, Integer, Boolean, Template), a tag other than
\* `enumerate` where the loop variable stands.
ForHeader(children) == Tag(<<"f", "o", "r">>, children)
MalformedFors ==
    LET in == Identifier(kw_in)
        body == Tag(n_b, <<Var(n_item)>>)
        list == Binding(n_xs, VVec(<<VString(<<"a">>), VInteger(7)>>))
        object == Binding(n_xs, VObject(Binding(n_a, VInteger(1))))
        other(v) == Binding(n_xs, v)
    IN
    << [t |-> ForHeader(<<in, Var(n_xs), body>>), c |-> list],
       [t |-> ForHeader(<<in, Var(n_xs), body>>), c |-> object],
       [t |-> ForHeader(<<Identifier(n_k), in, Var(n_xs), body>>), c |-> object],
       [t |-> ForHeader(<<Identifier(n_item), in>>), c |-> list],
       [t |-> ForHeader(<<Identifier(n_k), Identifier(n_v), in>>), c |-> object],
       [t |-> ForHeader(<<Identifier(n_item), in, Var(n_xs), body>>), c |-> EmptyContext],
       [t |-> ForHeader(<<Identifier(n_item), in, Var(n_xs), body>>),
        c |-> other(VString(<<"a">>))],
       [t |-> ForHeader(<<Identifier(n_item), in, Var(n_xs), body>>),
        c |-> other(VInteger(7))],
       [t |-> ForHeader(<<Identifier(n_item), in, Var(n_xs), body>>),
        c |-> other(VBoolean(TRUE))],
       [t |-> ForHeader(<<Identifier(n_item), in, Var(n_xs), body>>),
        c |-> other(VTemplate(Tag(n_b, <<>>)))],
       [t |-> ForHeader(<<Tag(n_b, <<Identifier(n_k), Identifier(n_i)>>), in, Var(n_xs), body>>),
        c |-> list],
       [t |-> ForHeader(<<Tag(kw_range, <<IntegerLit(0), IntegerLit(2)>>), in, Var(n_xs), body>>),
        c |-> list],
       [t |-> Tag(n_div, <<Identifier(n_x),
                           ForHeader(<<Identifier(n_item), in, Var(n_xs), body>>)>>),
        c |-> other(VInteger(7))] >>

\* Contexts in which the expansion of a variable leads back to that
\* variable: a List holding its own reference, two Lists holding each
\* other's, a Template that is its own reference, a Template and a List
\* holding each other's, a List expanded under a markup element and as a
\* condition.
SelfReferences ==
    LET a == VString(<<"$">> \o n_a)
        b == VString(<<"$">> \o n_b)
        tpl == <<"t", "p", "l">>
    IN
    << [t |-> Var(n_a), c |-> Binding(n_a, VVec(<<a>>))],
       [t |-> Var(n_a), c |-> Binding(n_a, VVec(<<VInteger(1), a>>))],
       [t |-> Var(n_a), c |-> Binding(n_a, VVec(<<b>>)) @@ Binding(n_b, VVec(<<a>>))],
       [t |-> Var(n_b),
        c |-> Binding(n_a, VVec(<<a>>)) @@ Binding(n_b, VVec(<<VString(<<"t">>), a>>))],
       [t |-> Var(tpl), c |-> Binding(tpl, VTemplate(Var(tpl)))],
       [t |-> Var(tpl), c |-> Binding(tpl, VTemplate(Tag(n_div, <<Var(tpl)>>)))],
       [t |-> Var(n_a),
        c |-> Binding(n_a, VVec(<<VString(<<"$">> \o tpl)>>))
              @@ Binding(tpl, VTemplate(Tag(n_b, <<Var(n_a)>>)))],
       [t |-> Tag(n_div, <<IntegerLit(1), Var(n_a)>>), c |-> Binding(n_a, VVec(<<a>>))],
       [t |-> Tag(<<"i", "f">>, <<Var(n_a), Identifier(n_x)>>),
        c |-> Binding(n_a, VVec(<<a>>))] >>

TemplateOf(sc) ==
    CASE sc.kind = "for_list" -> ForListTemplate
      [] sc.kind = "for_enum" -> ForEnumTemplate
      [] sc.kind = "for_range" ->
            ForRangeTemplate(IntegerLit(sc.min), IntegerLit(sc.max),
                             IF sc.step.some THEN Some(IntegerLit(sc.step.v)) ELSE None)
      [] sc.kind = "for_range_var" ->
            IF sc.math
            THEN ForRangeTemplate(Tag(<<"-">>, <<Var(n_b), Var(n_a)>>),
                                  Tag(<<"+">>, <<Var(n_b), IntegerLit(1)>>), None)
            ELSE ForRangeTemplate(Var(n_a), Var(n_b), None)
      [] sc.kind = "for_object" -> ForObjectTemplate
      [] sc.kind = "is_set" -> IsSetTemplate
      [] sc.kind = "if" ->
            IfTemplate(CASE sc.form = "var" -> Var(n_c)
                         [] sc.form = "is_set" ->
                               Tag(<<"i", "s", "-", "s", "e", "t">>, <<Var(n_c)>>)
                         [] sc.form = "empty" ->
                               Tag(<<"c", "a", "s", "e">>, <<Var(n_c)>>), sc.has_else)
      [] sc.kind = "switch" -> SwitchTemplate(sc.labels)
      [] sc.kind = "undefined" ->
            IF sc.wrapped THEN Tag(<<"p">>, <<Var(sc.name)>>) ELSE Var(sc.name)
      [] sc.kind = "get" -> GetTemplate(sc.i)
      [] sc.kind = "math" -> MathTemplate(sc.op, sc.b)
      [] sc.kind = "cmp" -> CmpTemplate(sc.cmp)
      [] sc.kind = "dotted" -> Var(JoinDots(sc.path))
      [] sc.kind = "keys" -> KeysTemplate
      [] sc.kind = "markup" -> TagA(<<"p">>, sc.attributes, sc.children)
      [] sc.kind = "handled" -> Tag(n_div, <<TagA(sc.name, sc.attributes, sc.children)>>)
      [] sc.kind = "placeholders" -> Var(n_xs)
      [] sc.kind = "nested" -> NestedTemplate(sc.labels, sc.inner)
      [] sc.kind = "override" -> OverrideTemplate(sc.name)
      [] sc.kind = "div_zero" -> DivideTemplate(sc.op, sc.a, sc.zero, sc.around)
      [] sc.kind = "for_header" -> MalformedFors[sc.n].t
      [] sc.kind = "self_ref" -> SelfReferences[sc.n].t
      [] sc.kind = "operand_error" -> OperandErrorTemplate(sc.on, sc.failing, sc.second)
      [] sc.kind = "colliding" -> CollidingTemplate(sc.labels, sc.open)
      [] sc.kind = "misc" -> MiscCalls[sc.n].t

ContextOf(sc) ==
    CASE sc.kind = "for_list" -> Binding(n_xs, VVec(sc.xs)) @@ Optional(n_item, sc.outer)
      [] sc.kind = "for_enum" -> Binding(n_xs, VVec(sc.xs)) @@ Optional(n_k, sc.outer)
      [] sc.kind = "for_range" -> EmptyContext
      [] sc.kind = "for_range_var" -> Binding(n_a, VInteger(sc.a)) @@ Binding(n_b, VInteger(sc.b))
      [] sc.kind = "for_object" -> Binding(n_obj, VObject(sc.obj)) @@ Optional(n_k, sc.outer)
      [] sc.kind = "is_set" -> Optional(n_x, sc.x)
      [] sc.kind = "if" ->
            Optional(n_c, sc.c) @@ Binding(kw_switch_var, VString(<<"n", "o", "n", "e">>))
      [] sc.kind = "switch" -> Optional(n_d, sc.d)
      [] sc.kind = "undefined" -> sc.context
      [] sc.kind = "get" -> Binding(n_xs, VVec(sc.xs))
      [] sc.kind = "math" -> Binding(n_a, VInteger(sc.a))
      [] sc.kind = "cmp" -> Binding(n_a, sc.lhs) @@ Binding(n_b, sc.rhs)
      [] sc.kind = "dotted" -> DottedContext
      [] sc.kind = "keys" -> StoredContext(sc)
      [] sc.kind = "markup" -> Binding(n_a, VInteger(5))
      [] sc.kind = "handled" ->
            Binding(n_a, VInteger(5)) @@ Binding(n_xs, VVec(<<VString(<<"a">>)>>))
      [] sc.kind = "placeholders" -> PlaceholderContext(sc.xs)
      [] sc.kind = "nested" -> Optional(n_d, sc.d) @@ Optional(<<"e">>, sc.e)
      [] sc.kind = "override" -> EmptyContext
      [] sc.kind = "div_zero" ->
            Binding(n_b, VInteger(0)) @@ Binding(n_xs, VVec(<<VInteger(1), VInteger(2)>>))
      [] sc.kind = "for_header" -> MalformedFors[sc.n].c
      [] sc.kind = "self_ref" -> SelfReferences[sc.n].c
      [] sc.kind = "operand_error" -> Binding(n_xs, VVec(<<VInteger(1)>>))
      [] sc.kind = "colliding" -> Optional(n_d, sc.d)
      [] sc.kind = "misc" -> MiscCalls[sc.n].c

Outers == Options({VString(<<"o">>)})

Scenarios ==
    {[kind |-> "for_list", xs |-> xs, outer |-> o] : xs \in Lists, o \in Outers}
    \cup {[kind |-> "for_enum", xs |-> xs, outer |-> o] : xs \in Lists, o \in Outers}
    \cup {[kind |-> "for_range", min |-> min, max |-> max, step |-> step] :
             min \in -1..MaxRange, max \in 0..MaxRange, step \in Options(-1..MaxStep)}
    \cup {[kind |-> "for_range_var", a |-> 4, b |-> 7, math |-> m] : m \in BOOLEAN}
    \cup {[kind |-> "for_object", obj |-> obj, outer |-> o] : obj \in Objects, o \in Outers}
    \cup {[kind |-> "is_set", x |-> x] : x \in Options(KindPool)}
    \cup {[kind |-> "if", form |-> f, c |-> c, has_else |-> e] :
             f \in {"var", "is_set", "empty"}, c \in Options(KindPool), e \in BOOLEAN}
    \cup {[kind |-> "switch", labels |-> ls, d |-> d] :
             ls \in DistinctSeqs(LabelPool, MaxLen),
             d \in Options({VString(l) : l \in LabelPool}
                           \cup {VString(<<"n", "o", "n", "e">>), VInteger(1)})}
    \cup UNION { {[kind |-> "undefined", name |-> n, context |-> c, wrapped |-> w] :
                      c \in ContextsWithout(n), w \in BOOLEAN} : n \in NamePool }
    \cup {[kind |-> "get", xs |-> xs, i |-> i] : xs \in Lists, i \in -1..(MaxLen + 1)}
    \cup {[kind |-> "math", op |-> op, a |-> a, b |-> b] :
             op \in MathOps, a \in Operands, b \in Operands}
    \cup {[kind |-> "cmp", cmp |-> op, lhs |-> a, rhs |-> b] :
             op \in CmpTags, a \in CmpOperands, b \in CmpOperands}
    \cup {[kind |-> "div_zero", op |-> op, a |-> a, zero |-> z, around |-> w] :
             op \in {"/", "%"}, a \in {-7, 0, 7}, z \in DOMAIN Zeros,
             w \in DOMAIN Surroundings(IntegerLit(0))}
    \cup {[kind |-> "dotted", path |-> p] : p \in Paths}
    \cup Stores
    \cup Registrations
    \cup Markups
    \cup Handled
    \cup Placeholders
    \cup {[kind |-> "nested", labels |-> ls, inner |-> ms, d |-> d, e |-> e] :
             ls \in [1..3 -> {<<"a">>, <<"a", "s", "d", "f">>}],
             ms \in [1..2 -> {<<"a">>, <<"a", "s", "d", "f">>}],
             d \in Options({VString(<<"a">>), VString(<<"a", "s", "d", "f">>)}),
             e \in Options({VString(<<"a">>), VString(<<"a", "s", "d", "f">>)})}
    \cup {[kind |-> "for_header", n |-> n] : n \in DOMAIN MalformedFors}
    \cup {[kind |-> "operand_error", on |-> op, failing |-> f, second |-> s] :
             op \in MathTags \cup CmpTags, f \in DOMAIN FailingOperands, s \in BOOLEAN}
    \cup {[kind |-> "colliding", labels |-> ls, d |-> d, open |-> open] :
             ls \in SeqsUpTo({<<"a">>, <<"a", "s", "d", "f">>}, MaxLen),
             d \in Options({VString(<<"a">>), VString(<<"n", "o", "n", "e">>)}),
             open \in BOOLEAN}
    \cup {[kind |-> "misc", n |-> n] : n \in DOMAIN MiscCalls}

-----------------------------------------------------------------------------
(* The specification.                                                      *)

\* The caller has built a context and a Renderer and calls render.
Init ==
    /\ scenario \in Scenarios
    /\ template = TemplateOf(scenario)
    /\ heap = <<ContextOf(scenario)>>
    /\ functions = FunctionsOf(scenario)
    /\ stack = <<RenderFrame(template, 1)>>
    /\ ret = NoRet
    /\ bodyLog = <<>>
    /\ parked = <<>>
    /\ alone = <<>>

Next ==
    \/ Render \/ RenderFinalize \/ PropagateError
    \/ EvaluateIdentifier \/ EvaluateInteger \/ EvaluateTag \/ EvaluateDispatch
    \/ EvaluateAttrs \/ EvaluateAttrsKey \/ EvaluateAttrsValue
    \/ EvaluateMultiple \/ EvaluateMultipleCollect
    \/ ExpandVariable \/ ExpandVariableElement \/ ExpandVariableElementCollect
    \/ ExpandVariableTemplate
    \/ BasicHtmlTag \/ BasicHtmlTagClose
    \/ DoHtml \/ DoHtmlReturn \/ DoIsSet \/ DoIf \/ DoIfBranch
    \/ DoCase \/ DoSwitch \/ DoSwitchCases \/ DoSwitchReturn
    \/ UserHandler
    \/ DoGet \/ DoGetIndex \/ DoGetReturn
    \/ DoMathOp \/ DoMathOpSecond \/ DoMathOpReturn
    \/ DoEq \/ DoEqSecond \/ DoEqReturn
    \/ DoCmpOp \/ DoCmpOpSecond \/ DoCmpOpReturn
    \/ DoFor \/ DoForVal \/ DoForKey \/ DoForValue \/ DoForNext \/ DoForCollect
    \/ DoForAttr \/ DoForAttrParse \/ DoForAttrIterate

Spec == Init /\ [][Next]_vars

\* The calls whose termination is examined: those of Scenarios, and those
\* on a context that refers back to itself.
InitTerminates ==
    /\ scenario \in Scenarios \cup {[kind |-> "self_ref", n |-> n] : n \in DOMAIN SelfReferences}
    /\ template = TemplateOf(scenario)
    /\ heap = <<ContextOf(scenario)>>
    /\ functions = FunctionsOf(scenario)
    /\ stack = <<RenderFrame(template, 1)>>
    /\ ret = NoRet
    /\ bodyLog = <<>>
    /\ parked = <<>>
    /\ alone = <<>>

\* Where the call stands: the function, the position and the index of each
\* frame, and whether a callee has returned.  Every step changes it.
Position ==
    <<[n \in DOMAIN stack |-> <<stack[n].fn, stack[n].pc, stack[n].i, Len(stack[n].acc)>>],
      ret.st>>

\* render runs on the caller's thread without suspension: a call that can
\* take a step takes it.
SpecTerminates == InitTerminates /\ [][Next]_vars /\ WF_Position(Next)

\* The render call has returned (or was aborted by a panic).
Done == stack = <<>>

-----------------------------------------------------------------------------
(* Render calls on a shared Renderer (renderer.rs).                        *)
(*                                                                         *)
(* `render` takes `&self`, and a NodeHandler is `Send + Sync`: one         *)
(* Renderer may be called from several threads at once.  Two calls are     *)
(* modelled, each with its own template and its own context.  The          *)
(* RenderContext objects of both live in the one heap; the handler table   *)
(* is the one table of the Renderer.  The call of the running thread is    *)
(* held in template, stack, ret, bodyLog and scenario, that of the other   *)
(* thread in `parked`.  The caller first issues each call with no other    *)
(* call in flight (its outcome is kept in `alone`), then both at once.     *)

\* The calls the caller issues on the shared Renderer: loops binding the
\* same names to different items, the other builtins, a user handler,
\* failing calls.  Calls whose outcome depends on the iteration order of a
\* HashMap are left out: they have no single outcome when run alone.
SharedCalls ==
    { [kind |-> "for_list", xs |-> <<VString(<<"a">>), VInteger(7)>>,
       outer |-> Some(VString(<<"o">>))],
      [kind |-> "for_list", xs |-> <<VString(<<"q", "z">>)>>, outer |-> None],
      [kind |-> "for_enum", xs |-> <<VInteger(7), VString(<<"a">>)>>, outer |-> None],
      [kind |-> "for_range", min |-> 0, max |-> 2, step |-> None],
      [kind |-> "math", op |-> "+", a |-> 1, b |-> 2],
      [kind |-> "for_object", obj |-> (<<"q", "w">> :> VInteger(1)),
       outer |-> Some(VString(<<"o">>))],
      [kind |-> "switch", labels |-> <<<<"a">>, <<"a", "s", "d", "f">>>>,
       d |-> Some(VString(<<"a", "s", "d", "f">>))],
      [kind |-> "if", form |-> "is_set", c |-> Some(VInteger(4)), has_else |-> TRUE],
      [kind |-> "get", xs |-> <<VString(<<"a">>), VInteger(7)>>, i |-> 1],
      [kind |-> "cmp", cmp |-> <<"e", "q">>, lhs |-> VInteger(1), rhs |-> VInteger(2)],
      [kind |-> "cmp", cmp |-> <<"l", "t">>, lhs |-> VInteger(1), rhs |-> VInteger(2)],
      [kind |-> "dotted", path |-> <<<<"o">>, n_a>>],
      [kind |-> "markup", attributes |-> <<<<Var(n_a), <<Var(n_a)>>>>>>,
       children |-> <<Var(n_a)>>],
      [kind |-> "override", name |-> <<"f", "o", "r">>, regs |-> <<"1">>, other |-> FALSE],
      [kind |-> "misc", n |-> 1],
      [kind |-> "misc", n |-> 2],
      [kind |-> "misc", n |-> 48] }

\* Those of them the second thread runs: the ones that introduce bindings
\* (for as `item`, switch as `__switch`) and the one with a user handler.
BindingCalls ==
    {sc \in SharedCalls :
        \/ sc.kind = "for_list" /\ sc.outer.some
        \/ sc.kind = "switch"
        \/ sc.kind = "override"}

\* A call as the thread that is to run it holds it: about to enter render
\* with its own template and its own context, heap[id].
RenderCall(id, sc) ==
    [id |-> id, scenario |-> sc, template |-> TemplateOf(sc),
     stack |-> <<RenderFrame(TemplateOf(sc), id)>>, ret |-> NoRet, bodyLog |-> <<>>]

\* The thread of call c is given the processor.
Resume(c) ==
    /\ scenario' = c.scenario
    /\ template' = c.template
    /\ stack' = c.stack
    /\ ret' = c.ret
    /\ bodyLog' = c.bodyLog

\* The call that is running, and that call as its thread holds it.
Self == 3 - parked[1].id
Suspended ==
    [id |-> Self, scenario |-> scenario, template |-> template,
     stack |-> stack, ret |-> ret, bodyLog |-> bodyLog]

\* What a call that has returned gave its caller, and the bindings its loop
\* bodies were evaluated with.
Outcome(c) == [ret |-> c.ret, bodyLog |-> c.bodyLog]

\* Both calls are in flight at once.
Together == Len(alone) = 2

\* The caller has a Renderer and two templates, each with its context, and
\* issues the first call with no other call in flight.
InitConcurrent ==
    /\ parked \in {<<RenderCall(2, sc)>> : sc \in BindingCalls}
    /\ scenario \in {sc \in SharedCalls : FunctionsOf(sc) = FunctionsOf(parked[1].scenario)}
    /\ template = TemplateOf(scenario)
    /\ heap = <<ContextOf(scenario), ContextOf(parked[1].scenario)>>
    /\ functions = FunctionsOf(scenario)
    /\ stack = <<RenderFrame(template, 1)>>
    /\ ret = NoRet
    /\ bodyLog = <<>>
    /\ alone = <<>>

\* The first call has returned: the caller issues the second, again with
\* no other call in flight.
IssueSecond ==
    /\ parked # <<>> /\ Len(alone) = 0 /\ Done
    /\ alone' = <<Outcome(Suspended)>>
    /\ Resume(parked[1])
    /\ parked' = <<RenderCall(1, scenario)>>
    /\ heap' = <<ContextOf(scenario), ContextOf(parked[1].scenario)>>
    /\ UNCHANGED functions

\* The second call has returned: the caller issues both calls again, each
\* on a thread of its own.
IssueTogether ==
    /\ parked # <<>> /\ Len(alone) = 1 /\ Done
    /\ alone' = Append(alone, Outcome(Suspended))
    /\ Resume(parked[1])
    /\ parked' = <<RenderCall(2, scenario)>>
    /\ heap' = <<ContextOf(parked[1].scenario), ContextOf(scenario)>>
    /\ UNCHANGED functions

\* The scheduler takes the processor from the running thread and gives it
\* to the other one, whose call has not returned yet.
Switch ==
    /\ Together /\ parked[1].stack # <<>>
    /\ Resume(parked[1])
    /\ parked' = <<Suspended>>
    /\ UNCHANGED <<heap, functions, alone>>

NextConcurrent == Next \/ IssueSecond \/ IssueTogether \/ Switch

SpecConcurrent == InitConcurrent /\ [][NextConcurrent]_vars

-----------------------------------------------------------------------------
(* The template parser (template.rs).                                      *)
(*                                                                         *)
(* Template::from_str hands the text to sexp::parse and the S-expression   *)
(* it gets to parse_expr.  The model starts from the S-expression.  In     *)
(* this revision of template.rs an attribute is a pair of texts, the       *)
(* to_string() of the two S-expressions of its entry.                      *)

\* sexp::Sexp: an atom (a symbol, an integer, a float) or a list.
SAtomS(s) == [sexp |-> "S", s |-> s]
SAtomI(i) == [sexp |-> "I", i |-> i]
SAtomF == [sexp |-> "F"]
SList(items) == [sexp |-> "List", items |-> items]

\* Sexp::to_string for the S-expressions of the model (symbols without
\* blanks or quotes; one float, 1.5).
RECURSIVE SexpToString(_)
RECURSIVE SexpsToString(_)
SexpsToString(es) ==
    IF es = <<>> THEN <<>>
    ELSE IF Len(es) = 1 THEN SexpToString(es[1])
    ELSE SexpToString(es[1]) \o <<" ">> \o SexpsToString(Tail(es))
SexpToString(e) ==
    CASE e.sexp = "S" -> e.s
      [] e.sexp = "I" -> IntToString(e.i)
      [] e.sexp = "F" -> <<"1", ".", "5">>
      [] e.sexp = "List" -> <<"(">> \o SexpsToString(e.items) \o <<")">>

\* A ParseExprError.
ParseFail(variant, what) == [st |-> "err", v |-> [variant |-> variant, what |-> what]]

\* parse_attrs, the closure: one entry of the block.  list.get(0) is the
\* name and list.get(1) the value; nothing looks at list.get(2) or beyond.
ParseAttr(attr, attrs) ==
    IF attr.sexp # "List" THEN ParseFail("NotAnAttribute", attr)
    ELSE IF Len(attr.items) < 1 THEN ParseFail("AttributeMissingElement", attrs)
    ELSE IF Len(attr.items) < 2 THEN ParseFail("AttributeMissingElement", attrs)
    ELSE Ok(<<SexpToString(attr.items[1]), SexpToString(attr.items[2])>>)

\* parse_attrs: the entries after the `@`, collected up to the first error.
RECURSIVE CollectAttrs(_, _, _)
CollectAttrs(attrs, n, acc) ==
    IF n > Len(attrs) THEN Ok(acc)
    ELSE LET r == ParseAttr(attrs[n], attrs) IN
         IF r.st = "ok" THEN CollectAttrs(attrs, n + 1, Append(acc, r.v)) ELSE r
ParseAttrs(attrs) == CollectAttrs(attrs, 2, <<>>)

\* list.get(1) is an attribute block: a list whose first element is `@`.
IsAttrBlock(list) ==
    /\ Len(list) >= 2
    /\ list[2].sexp = "List"
    /\ list[2].items # <<>>
    /\ list[2].items[1] = SAtomS(<<"@">>)

\* `match list[0]`: indexing an empty Vec panics; a first element that is
\* not a symbol is NotAList.
ListHead(list) ==
    IF list = <<>>
    THEN Panic("index out of bounds: the len is 0 but the index is 0")
    ELSE IF list[1].sexp = "S" THEN Ok(list[1].s)
    ELSE ParseFail("NotAList", list)

\* parse_expr; the children are parsed in order up to the first error.
RECURSIVE ParseExpr(_)
RECURSIVE CollectChildren(_, _, _)
CollectChildren(list, n, acc) ==
    IF n > Len(list) THEN Ok(acc)
    ELSE LET r == ParseExpr(list[n]) IN
         IF r.st = "ok" THEN CollectChildren(list, n + 1, Append(acc, r.v)) ELSE r
ParseExpr(e) ==
    CASE e.sexp = "S" -> Ok(Identifier(e.s))
      [] e.sexp = "I" -> Ok(IntegerLit(e.i))
      [] e.sexp = "F" -> ParseFail("NotAnAtom", e)
      [] e.sexp = "List" ->
            LET tag == ListHead(e.items) IN
            IF tag.st # "ok" THEN tag
            ELSE LET block == IsAttrBlock(e.items)
                     attrs == IF block THEN ParseAttrs(e.items[2].items) ELSE Ok(<<>>)
                 IN  IF attrs.st # "ok" THEN attrs
                     ELSE LET children == CollectChildren(e.items, IF block THEN 3 ELSE 2, <<>>)
                          IN  IF children.st # "ok" THEN children
                              ELSE Ok(TagA(tag.v, attrs.v, children.v))

\* The S-expressions handed to the parser: a list with or without a head,
\* with or without an attribute block of up to MaxEntries entries, and up
\* to MaxParsed children.
MaxEntries == 2
MaxParsed == 2
SexpHeads ==
    { <<>>, <<SAtomS(<<"p">>)>>, <<SAtomI(3)>>, <<SList(<<>>)>>,
      <<SList(<<SAtomS(<<"p">>)>>)>>, <<SAtomF>> }
SexpEntries ==
    { SAtomS(n_a), SList(<<>>), SList(<<SAtomS(n_k)>>),
      SList(<<SAtomS(n_k), SAtomS(n_v)>>),
      SList(<<SAtomS(n_k), SAtomS(n_v), SAtomS(<<"w">>)>>),
      SList(<<SList(<<SAtomS(n_a), SAtomI(3)>>), SList(<<>>)>>) }
SexpChildren ==
    { SAtomS(n_x), SAtomI(7), SList(<<>>), SList(<<SAtomI(3), SAtomS(n_x)>>),
      SList(<<SAtomS(n_b), SList(<<SAtomS(<<"@">>), SList(<<SAtomS(n_k), SAtomS(n_v)>>)>>),
              SAtomS(n_x)>>) }
Sexps ==
    { SAtomS(n_x), SAtomI(7), SAtomF }
    \cup { SList(head \o block \o children) :
                head \in SexpHeads,
                block \in {<<>>} \cup {<<SList(<<SAtomS(<<"@">>)>> \o es)>> :
                                            es \in SeqsUpTo(SexpEntries, MaxEntries)},
                children \in SeqsUpTo(SexpChildren, MaxParsed) }

\* The caller has an S-expression and calls Template::from_str.
InitParse ==
    /\ scenario \in {[kind |-> "parse", input |-> e] : e \in Sexps}
    /\ template = None
    /\ heap = <<>>
    /\ functions = StandardIssueFunctions
    /\ stack = <<Frame("from_str", 0)>>
    /\ ret = NoRet
    /\ bodyLog = <<>>
    /\ parked = <<>>
    /\ alone = <<>>

\* Template::from_str: parse_expr, and on success the Template around the
\* node it returned.
FromStr ==
    /\ Running("from_str", "start")
    /\ LET r == ParseExpr(scenario.input) IN
       /\ ret' = r
       /\ template' = IF r.st = "ok" THEN Some(r.v) ELSE None
    /\ stack' = <<>>
    /\ UNCHANGED <<heap, functions, bodyLog, scenario, parked, alone>>

NextParse == FromStr

SpecParse == InitParse /\ [][NextParse]_vars

-----------------------------------------------------------------------------
(* What the specification promises of a call, worked out from the caller's *)
(* inputs alone.                                                           *)

\* <tag>inner</tag>
Element(tag, inner) ==
    <<"<">> \o tag \o <<">">> \o inner \o <<"<", "/">> \o tag \o <<">">>

\* The text of an Integer or String value.
ScalarText(value) ==
    IF value.k = "Integer" THEN IntToString(value.payload) ELSE value.payload

\* What `$name` written after a construct must render to: the caller's
\* binding of the name, or the reference itself when the caller has none.
SiblingText(name) ==
    LET found == ContextGet(ContextOf(scenario), name) IN
    IF found.some THEN ScalarText(found.v) ELSE <<"$">> \o name

EndsWith(text, suffix) ==
    /\ Len(text) >= Len(suffix)
    /\ SubSeq(text, Len(text) - Len(suffix) + 1, Len(text)) = suffix

\* The call returned a text.
Rendered == Done /\ ret.st = "ok"

\* The call returned this text.
Returns(text) == Rendered /\ ret.v = text

\* Some `for` or `switch` is being evaluated.
InConstruct == \E j \in DOMAIN stack : stack[j].fn \in {"do_for", "do_switch"}

\* The text that must follow the construct in the scoping templates.
AfterConstruct ==
    CASE scenario.kind = "for_list" -> SiblingText(n_item)
      [] scenario.kind = "for_enum" -> SiblingText(n_k) \o SiblingText(n_i)
      [] scenario.kind = "for_object" -> SiblingText(n_k) \o SiblingText(n_v)
      [] scenario.kind = "switch" -> SiblingText(kw_switch_var)
      [] OTHER -> <<>>

\* C1: lexical scoping.  The caller's context holds the same bindings at
\* every moment of the call and after it, whether the call returns a text or
\* an error; whatever is evaluated outside every `for` and `switch` is
\* evaluated with exactly the caller's bindings, and a reference written
\* after the construct shows the value its name had before it (or shows as
\* unset).
C1_LexicalScoping ==
    /\ heap[1] = ContextOf(scenario)
    /\ (stack # <<>> /\ ~InConstruct) => heap[Top.ctx] = ContextOf(scenario)
    /\ (Rendered /\ scenario.kind \in {"for_list", "for_enum", "for_object", "switch"})
          => EndsWith(ret.v, AfterConstruct \o <<"<", "/">> \o n_div \o <<">">>)

\* A loop has bound `item` at least once, and the `$item` written after the
\* loop is being expanded where the caller had bound `item` itself.
C1_Witness ==
    /\ scenario.kind = "for_list" /\ scenario.outer.some
    /\ Len(bodyLog) >= 2
    /\ Running("expand_variable", "start") /\ ~InConstruct
    /\ Top.name = <<"$">> \o n_item

\* C2: expanding `$n`, n a bare name without binding in the context in
\* force, succeeds and yields the String `$n`, sigil included.
C2_UndefinedName ==
    [][ ( /\ Running("expand_variable", "start")
          /\ StartsWith(Top.name, "$") /\ ~Contains(Top.name, ".")
          /\ ~ContextGet(heap[Top.ctx], Tail(Top.name)).some )
        => ( /\ ret'.st = "ok" /\ ret'.v.k = "String"
             /\ ret'.v.payload = Top.name ) ]_vars

\* `$n` was the whole template, rendered with a context that binds other
\* names but not n, and the call returned the text `$n`.
C2_Witness ==
    /\ scenario.kind = "undefined" /\ ~scenario.wrapped
    /\ scenario.context # EmptyContext
    /\ Done /\ Returns(<<"$">> \o scenario.name)

\* C3: `(is-set $x)` is true exactly when x has a binding, whatever the kind
\* of the bound value, and false exactly when it has none.
C3_IsSetIffBound ==
    (scenario.kind = "is_set" /\ Done)
        => Returns(IF scenario.x.some THEN kw_true ELSE kw_false)

\* The conditions C4 calls false.
Falsy(value) == value \in {VBoolean(FALSE), VInteger(0), VString(<<>>)}

\* C4: `(if $c a b)` with c bound to a Boolean, an Integer or a String: when
\* the value is Boolean(false), Integer(0) or the empty String the result is
\* b (nothing when b is absent), for every other value it is a.
C4_IfTruthiness ==
    ( /\ scenario.kind = "if" /\ scenario.form = "var" /\ scenario.c.some
      /\ scenario.c.v.k \in {"Boolean", "Integer", "String"} /\ Done )
        => Returns(IF Falsy(scenario.c.v)
                    THEN (IF scenario.has_else THEN Element(n_i, n_no) ELSE <<>>)
                    ELSE Element(n_b, n_yes))

\* C5: `(for item in $xs body...)` over a List of n elements evaluates the
\* body n times, the k-th time with `item` bound to the k-th element, and
\* the result is the n body results in list order.
C5_ForList ==
    scenario.kind = "for_list" =>
        LET xs == scenario.xs IN
        /\ Len(bodyLog) <= Len(xs)
        /\ \A n \in DOMAIN bodyLog :
              ContextGet(bodyLog[n].context, n_item) = Some(xs[n])
        /\ Done =>
              /\ Len(bodyLog) = Len(xs)
              /\ Returns(Element(n_div,
                     Concat([n \in DOMAIN xs |->
                                Element(n_b, ScalarText(xs[n])) \o <<"-">>])
                     \o SiblingText(n_item)))

\* A List whose first two elements differ was iterated to its end.
C5_Witness ==
    /\ scenario.kind = "for_list" /\ Len(scenario.xs) >= 2
    /\ scenario.xs[1] # scenario.xs[2]
    /\ Rendered /\ Len(bodyLog) = Len(scenario.xs)

\* C6: in `(for (enumerate k i) in $xs body...)` the first name, k, is bound
\* to the iteration's index counted from 0 and the second, i, to the element.
C6_EnumerateOrder ==
    scenario.kind = "for_enum" =>
        \A n \in DOMAIN bodyLog :
            /\ ContextGet(bodyLog[n].context, n_k) = Some(VInteger(n - 1))
            /\ ContextGet(bodyLog[n].context, n_i) = Some(scenario.xs[n])

\* C7: `(for i in (range min max step) body)` with step >= 1, or without
\* step, evaluates the body ceil((max-min)/step) times (never when
\* max <= min), with i bound to min, min+step, ... , each below max.
C7_RangeCount ==
    (scenario.kind = "for_range" /\ (scenario.step.some => scenario.step.v >= 1)) =>
        LET min == scenario.min
            max == scenario.max
            step == IF scenario.step.some THEN scenario.step.v ELSE 1
            count == IF max <= min THEN 0 ELSE (max - min + step - 1) \div step
        IN  /\ Len(bodyLog) <= count
            /\ \A n \in DOMAIN bodyLog :
                  /\ ContextGet(bodyLog[n].context, n_i)
                        = Some(VInteger(min + (n - 1) * step))
                  /\ min + (n - 1) * step < max
            /\ Done =>
                  /\ Len(bodyLog) = count
                  /\ Returns(Concat([n \in 1..count |->
                                Element(n_b, IntToString(min + (n - 1) * step))]))

\* A range whose length is no multiple of its step was iterated to its end.
C7_Witness ==
    /\ scenario.kind = "for_range" /\ scenario.step = Some(2)
    /\ scenario.min = 0 /\ scenario.max = 3
    /\ Rendered /\ Len(bodyLog) = 2

\* C8: the children of `range` may be variables or arithmetic: with a = 4
\* and b = 7, `(range $a $b)` iterates 4, 5, 6 and
\* `(range (- $b $a) (+ $b 1))` iterates 3 .. 7.
C8_RangeExpressions ==
    (scenario.kind = "for_range_var" /\ Done) =>
        LET min == IF scenario.math THEN scenario.b - scenario.a ELSE scenario.a
            max == IF scenario.math THEN scenario.b + 1 ELSE scenario.b
        IN  Returns(Concat([n \in 1..(max - min) |->
                               Element(n_b, IntToString(min + n - 1))]))

\* The place of a key among the keys of its map, least first.
Rank(key, keys) == Cardinality({x \in keys : StrLess(x, key)}) + 1

\* C9: `(for k v in $obj body...)` over an Object of n entries evaluates the
\* body n times, once per entry, with k bound to the key as a String and v
\* to the value, in the order the map iterates its keys (least key first).
C9_ForObject ==
    scenario.kind = "for_object" =>
        LET obj == scenario.obj
            keys == DOMAIN obj
            nth(n) == CHOOSE key \in keys : Rank(key, keys) = n
        IN  /\ Len(bodyLog) <= Cardinality(keys)
            /\ \A n \in DOMAIN bodyLog :
                  /\ \E key \in keys : Rank(key, keys) = n
                  /\ ContextGet(bodyLog[n].context, n_k) = Some(VString(nth(n)))
                  /\ ContextGet(bodyLog[n].context, n_v) = Some(obj[nth(n)])
            /\ Done =>
                  /\ Len(bodyLog) = Cardinality(keys)
                  /\ Returns(Element(n_div,
                         Concat([n \in 1..Cardinality(keys) |->
                                    Element(n_b, nth(n) \o <<"=">> \o ScalarText(obj[nth(n)]))])
                         \o SiblingText(n_k) \o SiblingText(n_v)))

\* An Object of several entries was iterated to its end.
C9_Witness ==
    /\ scenario.kind = "for_object" /\ Cardinality(DOMAIN scenario.obj) >= 2
    /\ Rendered /\ Len(bodyLog) = Cardinality(DOMAIN scenario.obj)

\* The finalized discriminant of the switch templates.
Discriminant == IF scenario.d.some THEN ScalarText(scenario.d.v) ELSE <<"$">> \o n_d

\* C10: a switch whose cases carry pairwise distinct labels emits the body
\* of the case whose label is the discriminant's text and nothing of any
\* other case; when no label is, it emits nothing.
C10_SwitchSelects ==
    (scenario.kind = "switch" /\ Done) =>
        Returns(Element(n_div,
                 Concat([n \in DOMAIN scenario.labels |->
                            IF scenario.labels[n] = Discriminant
                            THEN Element(n_b, scenario.labels[n]) \o <<"!">>
                            ELSE <<>>])
                 \o SiblingText(kw_switch_var)))

\* A switch of several cases was rendered, its discriminant matching a case
\* that is not the first.
C10_Witness ==
    /\ scenario.kind = "switch" /\ Len(scenario.labels) >= 2
    /\ scenario.labels[2] = Discriminant
    /\ Rendered

\* The call returned this error.
Fails(variant) == Done /\ ret.st = "err" /\ ret.v.variant = variant

\* C11: `(get $xs i)`, xs bound to a List: for 0 <= i < len the result is
\* the i-th element counted from 0; for i = len and every other i outside
\* the List the call fails with a Get error.
C11_GetFromList ==
    (scenario.kind = "get" /\ Done) =>
        IF scenario.i >= 0 /\ scenario.i < Len(scenario.xs)
        THEN Returns(ScalarText(scenario.xs[scenario.i + 1]))
        ELSE Fails("Get")

\* The last element of a List of several elements was fetched.
C11_Witness ==
    /\ scenario.kind = "get" /\ Len(scenario.xs) >= 2
    /\ scenario.i = Len(scenario.xs) - 1
    /\ scenario.xs[scenario.i + 1] # scenario.xs[scenario.i]
    /\ Rendered

\* The decimal text of a + b, for a and b that are not negative; the sum
\* itself may be beyond i32.
SumText(a, b) ==
    LET units == (a % 10) + (b % 10)
        tens == (a \div 10) + (b \div 10) + (units \div 10)
    IN  IF tens = 0 THEN <<Digit(units)>> ELSE Append(NatToString(tens), Digit(units % 10))

\* The quotient of a by b # 0 truncated toward zero, a and b above I32Min.
Truncated(a, b) ==
    LET magnitude == (IF a < 0 THEN -a ELSE a) \div (IF b < 0 THEN -b ELSE b)
    IN  IF (a < 0) = (b < 0) THEN magnitude ELSE -magnitude

\* The text of the exact result of `a op b`, where these definitions can
\* tell it.
ExactText(op, a, b) ==
    CASE op = "+" -> IF a >= 0 /\ b >= 0 THEN Some(SumText(a, b))
                     ELSE IF (a < 0) # (b < 0) THEN Some(IntToString(a + b))
                     ELSE None
      [] op = "-" -> IF (a < 0) = (b < 0) THEN Some(IntToString(a - b))
                     ELSE IF a >= 0 /\ b > I32Min THEN Some(SumText(a, -b))
                     ELSE None
      [] op = "*" -> IF a \in -7..7 /\ b \in -7..7 THEN Some(IntToString(a * b))
                     ELSE IF a = 0 \/ b = 0 THEN Some(<<"0">>)
                     ELSE IF a = 1 THEN Some(IntToString(b))
                     ELSE IF b = 1 THEN Some(IntToString(a))
                     ELSE None
      [] op = "/" -> IF b # 0 /\ a > I32Min /\ b > I32Min
                     THEN Some(IntToString(Truncated(a, b))) ELSE None
      [] op = "%" -> IF b # 0 /\ a > I32Min /\ b > I32Min
                     THEN Some(IntToString(a - Truncated(a, b) * b)) ELSE None

DividesByZero ==
    /\ Running("do_math_op", "exp2_ret") /\ Returned
    /\ Top.loc.op \in {"/", "%"}
    /\ \E txt \in Finalizations(ret.v) : ParseInt(txt) = Some(0)

\* C13: a `/` or `%` whose divisor evaluates to 0 produces no value: with
\* that step the render call is over, wherever in the template the
\* division stands, and it has ended in a failure, which nothing follows.
C13_DivisionByZeroIsFatal ==
    [][ /\ ret.st # "panic"
        /\ DividesByZero => (stack' = <<>> /\ ret'.st = "panic") ]_vars

\* A division by zero inside an operand, a condition, a loop or an
\* attribute has ended the call.
C13_Witness ==
    /\ scenario.kind = "div_zero" /\ scenario.around > 1 /\ scenario.a # 0
    /\ Done /\ ret.st = "panic"

\* The answers that say no, and the answers that say yes.
SaysFalse(text) == text \in {<<"f", "a", "l", "s", "e">>, kw_false}
SaysTrue(text) == text \in {<<"t", "r", "u", "e">>, kw_true}

RECURSIVE Misses(_, _)
Misses(path, c) ==
    IF path = <<>> THEN FALSE
    ELSE IF Head(path) \notin DOMAIN c THEN TRUE
    ELSE IF c[Head(path)].k = "Object" THEN Misses(Tail(path), c[Head(path)].payload)
    ELSE FALSE

\* C15: a dotted reference one of whose segments has no binding at its
\* step, in the caller's context or in an Object reached from it, evaluates
\* to Boolean(false): the call returns neither an error nor the text of the
\* reference, but "false".
C15_DottedMiss ==
    (scenario.kind = "dotted" /\ Misses(scenario.path, ContextOf(scenario))) =>
        /\ ret.st \in {"none", "ok"}
        /\ (ret.st = "ok" /\ ~Done) => (ret.v.k = "Boolean" /\ ret.v.payload = FALSE)
        /\ Done => Returns(<<"f", "a", "l", "s", "e">>)

\* The miss came two Objects down: $o.a.z.
C15_Witness ==
    /\ scenario.kind = "dotted"
    /\ scenario.path = << <<"o">>, n_a, <<"z">> >>
    /\ Rendered

\* C16: a value stored under `x` or `$x`, by RenderContext::insert or by
\* the builder, is returned by get("x") and by get("$x"); `$$x` is another
\* key: get("$$x") returns what was stored under `$$x`, and nothing when
\* nothing was.  The three lookups are those of `$x`, `$$x` and `$$$x` in
\* (p $x $$x $$$x).
C16_SigilInsensitiveKeys ==
    (scenario.kind = "keys" /\ Done) =>
        Returns(Element(<<"p">>,
                        <<"v", "v">> \o (IF scenario.second THEN <<"w">>
                                         ELSE <<"$", "$", "$">> \o n_x)))

\* The handler registered last under the overridden name.
LastRegistered == Handler("user", scenario.regs[Len(scenario.regs)])

\* C17: after handlers were registered under the name of a builtin, the
\* table holds the last of them under that name and the standard handler
\* under every other builtin name; every tag of that name is run by that
\* last handler, never by the builtin or an earlier registration; and the
\* call returns the last handler's text where the tag stands.
C17_Override ==
    scenario.kind = "override" =>
        /\ functions[scenario.name] = LastRegistered
        /\ \A n \in DOMAIN StandardIssueFunctions \ {scenario.name} :
              functions[n] = StandardIssueFunctions[n]
        /\ \A j \in DOMAIN stack :
              stack[j].tag = scenario.name
                 => (stack[j].fn = "user" /\ stack[j].loc.op = LastRegistered.op)
        /\ Done => Returns(Element(n_div,
                              <<LastRegistered.op>> \o kw_true
                              \o (IF scenario.other THEN <<"9">> ELSE <<"<">> \o n_blah \o <<" ", "/", ">">>)
                              \o <<LastRegistered.op>>))

\* `if` was registered twice, with two different handlers, and the call
\* has returned.
C17_Witness ==
    /\ scenario.kind = "override" /\ scenario.name = <<"i", "f">>
    /\ scenario.regs = <<"1", "2">>
    /\ Rendered

MarkupText(node) ==
    CASE node = Var(n_a) -> <<"5">>
      [] node.node = "Identifier" /\ node # Var(n_a) -> node.s
      [] node.node = "Integer" -> IntToString(node.i)
      [] node.node = "Tag" -> <<"<">> \o node.tag \o <<" ", "/", ">">>

RECURSIVE MarkupTexts(_)
MarkupTexts(nodes) ==
    IF nodes = <<>> THEN <<>> ELSE MarkupText(Head(nodes)) \o MarkupTexts(Tail(nodes))

\* ` key="value"` for each attribute, first to last.
RECURSIVE AttributesText(_)
AttributesText(attributes) ==
    IF attributes = <<>> THEN <<>>
    ELSE <<" ">> \o MarkupText(Head(attributes)[1]) \o <<"=", "\"">>
         \o MarkupTexts(Head(attributes)[2]) \o <<"\"">>
         \o AttributesText(Tail(attributes))

\* C19: (p (@ (k1 v1) ...) child ...), p having no handler: without
\* children the call returns <p k1="v1" ... />, with children
\* <p k1="v1" ...>, the children's texts in order, and </p>; the
\* attributes stand in the order written, key and value evaluated.
C19_LiteralMarkup ==
    (scenario.kind = "markup" /\ Done) =>
        Returns(<<"<", "p">> \o AttributesText(scenario.attributes)
                \o (IF scenario.children = <<>> THEN <<" ", "/", ">">>
                    ELSE <<">">> \o MarkupTexts(scenario.children) \o <<"<", "/", "p", ">">>))

\* Two different attributes and two different children were rendered.
C19_Witness ==
    /\ scenario.kind = "markup"
    /\ Len(scenario.attributes) = 2 /\ scenario.attributes[1] # scenario.attributes[2]
    /\ Len(scenario.children) = 2 /\ scenario.children[1] # scenario.children[2]
    /\ Rendered


-----------------------------------------------------------------------------
(* Concurrent render calls.                                                *)

\* Two Results are the same Result.
SameResult(r, q) ==
    /\ r.st = q.st
    /\ IF r.st = "panic" THEN r.msg = q.msg ELSE r.v = q.v

\* Call c has returned what it returned alone, after loop bodies evaluated
\* with the bindings they had alone.
AsAlone(c) ==
    /\ SameResult(c.ret, alone[c.id].ret)
    /\ c.bodyLog = alone[c.id].bodyLog

\* C20: render calls issued concurrently on one shared Renderer, each with
\* its own context, do not interfere: however the two calls are interleaved,
\* each returns exactly the result it returned when run alone, its loop
\* bodies see exactly the bindings they saw alone (none introduced by the
\* other call), and the handler table is at every moment the table the
\* Renderer was built with.
C20_NoInterference ==
    /\ functions = FunctionsOf(scenario)
    /\ Together =>
          /\ Done => AsAlone(Suspended)
          /\ parked[1].stack = <<>> => AsAlone(parked[1])

\* Both calls have returned, after each was inside a loop body while the
\* other call had bound the same name to another value in a loop of its
\* own.
BoundBy(c, name) ==
    {e.context[name] : e \in {c.bodyLog[n] : n \in {m \in DOMAIN c.bodyLog : name \in DOMAIN c.bodyLog[m].context}}}
C20_Witness ==
    /\ Together /\ Done /\ parked[1].stack = <<>>
    /\ Returned /\ parked[1].ret.st = "ok"
    /\ scenario.kind = "for_list" /\ parked[1].scenario.kind = "for_list"
    /\ BoundBy(Suspended, n_item) # {}
    /\ BoundBy(parked[1], n_item) # {}
    /\ BoundBy(Suspended, n_item) \cap BoundBy(parked[1], n_item) = {}
    /\ Len(heap) = 4 /\ n_item \in DOMAIN heap[3] /\ n_item \in DOMAIN heap[4]

-----------------------------------------------------------------------------
(* The parser.                                                             *)

\* from_str has returned or was aborted.
Parsed == scenario.kind = "parse" /\ Done

\* e is a list whose first element is not a symbol: it is empty, or headed
\* by an integer, a float or a list.
HeadNotSymbol(e) == e.sexp = "List" /\ (e.items = <<>> \/ e.items[1].sexp # "S")

\* C21: parsing a list whose first element is not a symbol (the empty list,
\* a list headed by an integer, a list headed by a list) returns a parse
\* failure: the parser does not abort and produces no Template.
C21_ListHeadMustBeSymbol ==
    (Parsed /\ HeadNotSymbol(scenario.input)) => (ret.st = "err" /\ ~template.some)

\* The input is a tag with an attribute block, and the entries of the block.
HasAttrBlock(e) == e.sexp = "List" /\ ~HeadNotSymbol(e) /\ IsAttrBlock(e.items)
BlockEntries(e) == Tail(e.items[2].items)

\* An entry of the shape (name value).
IsPair(entry) == entry.sexp = "List" /\ Len(entry.items) = 2

\* C26: in an attribute block (@ e1 e2 ...) every element after `@` must be
\* a list of exactly two elements: with an element that is an atom, or a
\* list of zero, one, three or more elements, parsing fails with an
\* attribute-shape error.
C26_AttributeShape ==
    (/\ Parsed
     /\ HasAttrBlock(scenario.input)
     /\ \E n \in DOMAIN BlockEntries(scenario.input) : ~IsPair(BlockEntries(scenario.input)[n]))
    => (/\ ret.st = "err"
        /\ ret.v.variant \in {"NotAnAttribute", "AttributeMissingElement"})

-----------------------------------------------------------------------------
(* Malformed `for` headers.                                                *)

\* C22: every malformed `for` header (`in` as the first child, an Object
\* iterable with fewer than two names before `in`, nothing after `in`, an
\* unset iterable, an iterable that is neither List nor Object, a tag other
\* than `enumerate` in the loop-variable position) makes the render call
\* return a For error, and nothing else.
C22_MalformedForHeader ==
    (scenario.kind = "for_header" /\ Done) => (ret.st = "err" /\ ret.v.variant = "For")

-----------------------------------------------------------------------------
(* Colliding case labels.                                                  *)

\* The bodies of the cases whose label is the discriminant, first to last.
MatchingBodies ==
    Concat([n \in DOMAIN scenario.labels |->
               IF scenario.labels[n] = Discriminant
               THEN Element(n_b, IntToString(n)) ELSE <<>>])

\* C23: `switch` evaluates every case, in template order, whatever earlier
\* cases did: the bodies of all the cases carrying the discriminant as their
\* label are emitted, in the order of the cases, and a match does not stop
\* the visit of the cases after it (a last case without a label is reached,
\* and fails, whatever matched before it).
C23_EveryCaseFires ==
    (scenario.kind = "colliding" /\ Done) =>
        IF scenario.open THEN Fails("Case") ELSE Returns(MatchingBodies)

\* A switch was rendered whose first and third case carry the discriminant
\* and whose second does not.
C23_Witness ==
    /\ scenario.kind = "colliding" /\ ~scenario.open /\ Rendered
    /\ Len(scenario.labels) = 3
    /\ scenario.labels[1] = Discriminant /\ scenario.labels[3] = Discriminant
    /\ scenario.labels[2] # Discriminant
    /\ ret.v = Element(n_b, <<"1">>) \o Element(n_b, <<"3">>)

-----------------------------------------------------------------------------
(* Tags with a handler.                                                    *)

\* The attribute `get` fails when it is evaluated.
AttrFails(attr) == attr[1] = Identifier(n_c)

\* What an attribute that does not fail evaluates to: Attribute(key, value).
AttrEvaluated(attr) ==
    IF attr[1] = Identifier(n_k) THEN <<n_k, n_v>> ELSE <<n_i, <<"5", "3">>>>

\* C24: when the name of a tag has a handler, the evaluator evaluates the
\* attributes of the tag, first to last, and then calls the handler with
\* the evaluated attributes and the children as they stand in the template;
\* the evaluator evaluates no child; the tag evaluates to what the handler
\* returned; a child that would fail if it were evaluated (a division by
\* zero, a `case` without label) causes no failure, while an attribute
\* that fails does, before the handler is called.
C24_HandlerGetsChildrenUnevaluated ==
    scenario.kind = "handled" =>
        LET attributes == scenario.attributes
            failing == \E n \in DOMAIN attributes : AttrFails(attributes[n])
        IN
        /\ \A j \in DOMAIN stack :
              /\ stack[j].fn = "evaluate" => stack[j].node \notin HandledChildren
              /\ stack[j].fn = "evaluate_multiple" => stack[j].expr # scenario.children
                                                      \/ scenario.children = <<>>
              /\ stack[j].fn = "user" =>
                    /\ ~failing
                    /\ stack[j].attrs = [n \in DOMAIN attributes |-> AttrEvaluated(attributes[n])]
                    /\ stack[j].expr = scenario.children
        /\ Done => IF failing THEN Fails("Get") ELSE Returns(Element(n_div, <<"1">>))

\* The handler has returned, and so has the call: the tag had two
\* attributes and two children, the first of which divides by zero.
C24_Witness ==
    /\ scenario.kind = "handled" /\ Rendered
    /\ Len(scenario.attributes) = 2 /\ Len(scenario.children) = 2
    /\ scenario.attributes[1] # scenario.attributes[2]
    /\ scenario.children[1] = Tag(<<"/">>, <<IntegerLit(1), IntegerLit(0)>>)
    /\ ret.v = Element(n_div, <<"1">>)

-----------------------------------------------------------------------------
(* Lists carrying references.                                              *)

\* What the elements of the placeholder Lists stand for in the caller's
\* context: `$a` is the String q, `$ys` the List [`$a`, 7] and so [q, 7],
\* `$o.b` the Integer 3, `$d` is unbound and stays as written; anything
\* else is the element itself.
Referent(elem) ==
    CASE elem = VString(<<"$">> \o n_a) -> VString(<<"q">>)
      [] elem = VString(<<"$">> \o n_ys) -> VVec(<<VString(<<"q">>), VInteger(7)>>)
      [] elem = VString(<<"$", "o", ".", "b">>) -> VInteger(3)
      [] OTHER -> elem

\* evaluate has returned the value of the template `$xs` to render.
Expanded == Len(stack) = 1 /\ Running("render", "ret") /\ Returned

\* C25: a bare variable bound to a List evaluates to a List of as many
\* elements in the same order, where each String element that is a
\* reference is replaced by what the reference expands to in the same
\* context (recursively: a referenced List has its own references
\* replaced), and every other element (a String without sigil, an Integer,
\* a List) is the stored element.
C25_ListPlaceholders ==
    (scenario.kind = "placeholders" /\ Expanded) =>
        /\ ret.v.k = "Vec"
        /\ Len(ret.v.payload) = Len(scenario.xs)
        /\ \A n \in DOMAIN scenario.xs : ret.v.payload[n] = Referent(scenario.xs[n])

\* A List of a String without sigil, a reference to a List and an Integer
\* was expanded.
C25_Witness ==
    /\ scenario.kind = "placeholders" /\ Expanded
    /\ scenario.xs = <<VString(<<"t">>), VString(<<"$">> \o n_ys), VInteger(12)>>
    /\ ret.v.payload[2] = VVec(<<VString(<<"q">>), VInteger(7)>>)

-----------------------------------------------------------------------------
(* Nested switches.                                                        *)

\* The finalized discriminant of the inner switch.
InnerDiscriminant == IF scenario.e.some THEN ScalarText(scenario.e.v) ELSE <<"$", "e">>

\* What the inner switch emits: the bodies of the inner cases whose label
\* is the inner discriminant.
InnerBodies ==
    Concat([m \in DOMAIN scenario.inner |->
               IF scenario.inner[m] = InnerDiscriminant
               THEN Element(n_b, IntToString(m)) ELSE <<>>])

\* C27: nested switches do not interfere.  For a switch inside the first
\* case body of an outer switch, the inner cases are compared with the inner
\* discriminant only, and every outer case evaluated after the case holding
\* the inner switch is compared with the outer discriminant: the hidden
\* binding of the inner switch is not visible to the outer cases.
C27_NestedSwitches ==
    (scenario.kind = "nested" /\ Done) =>
        Returns(Concat([n \in DOMAIN scenario.labels |->
                           IF scenario.labels[n] # Discriminant THEN <<>>
                           ELSE IF n = 1 THEN InnerBodies
                           ELSE Element(n_b, IntToString(10 * n))]))

\* The inner switch has matched a case on a discriminant that differs from
\* the outer one, and an outer case after it has matched the outer
\* discriminant while another has not matched the inner one.
C27_Witness ==
    /\ scenario.kind = "nested" /\ Rendered
    /\ Discriminant # InnerDiscriminant
    /\ scenario.labels[1] = Discriminant /\ scenario.labels[2] = InnerDiscriminant
    /\ scenario.labels[3] = Discriminant
    /\ scenario.inner[2] = InnerDiscriminant
    /\ ret.v = Element(n_b, <<"2">>) \o Element(n_b, <<"3", "0">>)

-----------------------------------------------------------------------------
(* Errors of operands.                                                     *)

-----------------------------------------------------------------------------
(* Dotted references that find every segment.                              *)

\* Walking the path from the context c: the first value met that is not an
\* Object, if every segment before it names an Object.
RECURSIVE FirstValue(_, _)
FirstValue(path, c) ==
    IF path = <<>> \/ Head(path) \notin DOMAIN c THEN None
    ELSE IF c[Head(path)].k = "Object" THEN FirstValue(Tail(path), c[Head(path)].payload)
    ELSE Some(c[Head(path)])

\* Every segment of the path names an Object.
RECURSIVE EndsOnObject(_, _)
EndsOnObject(path, c) ==
    \/ path = <<>>
    \/ /\ Head(path) \in DOMAIN c
       /\ c[Head(path)].k = "Object"
       /\ EndsOnObject(Tail(path), c[Head(path)].payload)

\* The value the reference of the scenario has to evaluate to: its own text
\* with the sigil when the path ends on an Object, the first value that is
\* no Object when the path meets one.
DottedExpected ==
    LET c == ContextOf(scenario)
        met == FirstValue(scenario.path, c) IN
    IF EndsOnObject(scenario.path, c)
    THEN Some(VString(<<"$">> \o JoinDots(scenario.path)))
    ELSE IF met.some THEN Some(ToRenderValue(met.v)) ELSE None

\* C29: a dotted reference whose every segment resolves to an Object
\* evaluates to the reference text with its sigil, as a String; a path that
\* meets a value that is no Object evaluates to that value, whatever
\* segments follow.
C29_DottedHit ==
    (scenario.kind = "dotted" /\ DottedExpected.some) =>
        /\ ret.st \in {"none", "ok"}
        /\ (ret.st = "ok" /\ ~Done) => ret.v = DottedExpected.v
        /\ Done => ret.v \in Finalizations(DottedExpected.v)

\* A call has returned the text of a reference that ends on an Object, and
\* a call has returned a value met before the last segment of its path.
C29_Witness ==
    /\ scenario.kind = "dotted" /\ Done /\ ret.st = "ok"
    /\ LET c == ContextOf(scenario) IN
       \/ EndsOnObject(scenario.path, c) /\ ret.v = <<"$">> \o JoinDots(scenario.path)
       \/ /\ FirstValue(scenario.path, c).some
          /\ FirstValue(SubSeq(scenario.path, 1, Len(scenario.path) - 1), c).some
          /\ ret.v \in Finalizations(ToRenderValue(FirstValue(scenario.path, c).v))
-----------------------------------------------------------------------------
(* Termination.                                                            *)

\* The variables a node of a template names.
RECURSIVE NodeRefs(_)
NodeRefs(n) ==
    IF n.node = "Identifier"
    THEN IF StartsWith(n.s, "$") /\ ~Contains(n.s, ".") THEN {Tail(n.s)} ELSE {}
    ELSE IF n.node = "Tag"
    THEN UNION {NodeRefs(n.children[i]) : i \in DOMAIN n.children}
    ELSE {}

\* The variables whose expansion the expansion of a value leads to: those a
\* List names in its String elements, those a Template names.
ValueRefs(v) ==
    IF v.k = "Vec"
    THEN UNION {IF v.payload[i].k = "String"
                THEN NodeRefs(Identifier(v.payload[i].payload)) ELSE {} :
                i \in DOMAIN v.payload}
    ELSE IF v.k = "Template" THEN NodeRefs(v.payload)
    ELSE {}

\* The variables of c reached from those of S in at most n steps.
RECURSIVE ReachedFrom(_, _, _)
ReachedFrom(c, S, n) ==
    IF n = 0 THEN S
    ELSE ReachedFrom(c, S \cup UNION {ValueRefs(c[m]) \cap DOMAIN c : m \in S}, n - 1)

\* Some List or Template of the context refers back, directly or through
\* other variables, to the variable that holds it.
SelfReferential ==
    LET c == ContextOf(scenario) IN
    \E m \in DOMAIN c :
        m \in ReachedFrom(c, ValueRefs(c[m]) \cap DOMAIN c, Cardinality(DOMAIN c))

\* The handler table holds the builtins and nothing else.
OnlyBuiltins == \A n \in DOMAIN functions : functions[n].fn # "user"

=============================================================================
